---- MODULE Spec2Model ----
(***************************************************************************)
(* The background script of the AI TestGen extension                       *)
(* (background/background.ts): the generateTest message handler, the       *)
(* provider dispatch behind it and the module-level API call log.          *)
(*                                                                         *)
(* One step of the model is one run of the script between two awaits: the  *)
(* onMessage listener up to `await getStoredSettings()`, the continuation  *)
(* after the settings arrive up to the first `await fetch`, the            *)
(* continuation of loggedFetch after the response, and the continuation    *)
(* after the body has been parsed.                                         *)
(*                                                                         *)
(* A URL is the sequence of its segments, so that string concatenation,    *)
(* includes('/v1') and endsWith('/v1') are computed on it.                 *)
(***************************************************************************)
EXTENDS Naturals, Sequences, FiniteSets, TLC

\* ------------------------------------------------------------------ bounds

\* generateTest messages that reach the background listener in one run
MaxRequests == 2

Requests == 1..MaxRequests

\* ------------------------------------------------------- provider identifiers

HostedChat == {"openai", "anthropic", "deepseek", "groq"}

\* the cases of callAIProvider's switch
SwitchProviders == HostedChat \cup {"local", "openrouter", "manual"}

\* "custom" is an identifier the switch has no case for
ProviderIds == SwitchProviders \cup {"custom"}

\* ------------------------------------------------------------ error messages

ErrNoProvider == "No AI provider selected. Please select a provider in settings."
ErrLocalEndpointHandler == "Local endpoint not configured. Please set up local provider in settings."
ErrOpenRouterKey == "OpenRouter API key not configured. Please add your API key in settings."
ErrFramework == "Unsupported test framework"
ErrUnsupported == "Unsupported AI provider"
ErrLocalConfig == "Local setup configuration or prompt missing. Please configure endpoint and model in settings."
ErrLocalEndpoint == "Local AI endpoint not configured. Please set endpoint (e.g., http://localhost:11434) in settings."
ErrLocalModel == "Local AI model not specified. Please set model name (e.g., llama3.1:8b, codellama) in settings."
ErrLocal403 == "Local AI service forbidden (403)"
ErrLocal404 == "Endpoint not found (404). Verify the endpoint URL and model name."
ErrLocal5xx == "Local AI service error"
ErrLocalOther == "Local provider error"
ErrLocalNoContent == "No content received from local AI service. Response format may be unexpected."
ErrLocalConnect == "Cannot connect to local AI service. Please ensure the service is running and accessible."
ErrOpenRouterConfig == "OpenRouter configuration or prompt missing"
ErrOpenRouterModel == "OpenRouter model not specified"
ErrCustomConfig == "Custom provider configuration or prompt missing"
ErrCustomIncomplete == "Custom provider configuration is incomplete"
\* the message of the TypeError fetch rejects with
ErrFetch == "Failed to fetch"
\* the message of the SyntaxError response.json() rejects with
ErrJson == "Unexpected token < in JSON at position 0"
\* the message of the TypeError of data.choices[0] on a body without choices
ErrUndefined == "Cannot read properties of undefined (reading '0')"
\* error.message of the provider's JSON error body: the provider's own words
ErrBodyMessage == "provider error message"

KeyNotConfigured(provider) ==
    CASE provider = "openai" -> "Openai API key not configured. Please add your API key in settings."
      [] provider = "anthropic" -> "Anthropic API key not configured. Please add your API key in settings."
      [] provider = "deepseek" -> "Deepseek API key not configured. Please add your API key in settings."
      [] provider = "groq" -> "Groq API key not configured. Please add your API key in settings."
      [] provider = "manual" -> "Manual API key not configured. Please add your API key in settings."
      [] OTHER -> "Custom API key not configured. Please add your API key in settings."

ApiErrorDefault(provider) ==
    CASE provider = "openai" -> "OpenAI API error"
      [] provider = "anthropic" -> "Anthropic API error"
      [] provider = "deepseek" -> "DeepSeek API error"
      [] provider = "groq" -> "Groq API error"
      [] provider = "openrouter" -> "OpenRouter API error"
      [] OTHER -> "Custom provider API error"

\* ---------------------------------------------------------------------- URLs

V1 == "/v1"

includesV1(endpoint) == \E i \in 1..Len(endpoint) : endpoint[i] = V1

endsWithV1(endpoint) == Len(endpoint) > 0 /\ endpoint[Len(endpoint)] = V1

IsOpenAICompatibleAlways(endpoint) == TRUE

\* callLocalProvider: the format detection
IsOpenAICompatible(endpoint) == includesV1(endpoint) \/ endsWithV1(endpoint)

chatUrl(endpoint) ==
    IF endsWithV1(endpoint)
    THEN endpoint \o <<"/chat/completions">>
    ELSE endpoint \o <<V1, "/chat/completions">>

compUrl(endpoint) ==
    IF endsWithV1(endpoint)
    THEN endpoint \o <<"/completions">>
    ELSE endpoint \o <<V1, "/completions">>

generateUrl(endpoint) == endpoint \o <<"/api/generate">>

HostedUrl(provider) ==
    CASE provider = "openai" -> <<"https://api.openai.com", V1, "/chat/completions">>
      [] provider = "anthropic" -> <<"https://api.anthropic.com", V1, "/messages">>
      [] provider = "deepseek" -> <<"https://api.deepseek.com", V1, "/chat/completions">>
      [] OTHER -> <<"https://api.groq.com", "/openai", V1, "/chat/completions">>

OpenRouterUrl == <<"https://openrouter.ai", "/api", V1, "/chat/completions">>

HostedLabel(provider) ==
    CASE provider = "openai" -> "openai"
      [] provider = "anthropic" -> "Anthropic"
      [] provider = "deepseek" -> "DeepSeek"
      [] OTHER -> "Groq"

HostedDefaultModel(provider) ==
    CASE provider = "openai" -> "gpt-4"
      [] provider = "anthropic" -> "claude-3-sonnet-20240229"
      [] provider = "deepseek" -> "deepseek-chat"
      [] OTHER -> "llama-3.1-70b-versatile"

\* ------------------------------------------------------------------ settings

\* the ids of testTemplates
TemplateIds == {"playwright-js", "playwright-python", "cypress-js", "selenium-java", "selenium-python"}

\* testTemplates.find(...): found or undefined
getTemplateByFramework(frameworkId) == frameworkId \in TemplateIds

Host == "http://localhost:11434"

\* an absent (undefined) optional configuration has present = FALSE
NoLocalSetup == [present |-> FALSE, endpoint |-> <<>>, model |-> ""]
NoCustomConfig == [present |-> FALSE, baseUrl |-> <<>>, apiKey |-> "", model |-> ""]

\* the settings object written by onInstalled and returned by getStoredSettings
\* when storage holds none
DEFAULT_SETTINGS ==
    [selectedFramework |-> "playwright-ts",
     selectedAIProvider |-> "openai",
     apiKeys |-> [p \in ProviderIds |-> ""],
     selectedModel |-> [p \in ProviderIds |-> ""],
     localSetup |-> [present |-> TRUE, endpoint |-> <<Host>>, model |-> "llama-3.1"],
     openRouterConfig |-> [present |-> TRUE, apiKey |-> "", model |-> "openai/gpt-3.5-turbo"],
     customProviderConfig |-> NoCustomConfig]

\* the settings the user has saved, with a supported framework
Configured == [DEFAULT_SETTINGS EXCEPT !.selectedFramework = "playwright-js"]

\* local endpoints: none, Ollama style, ending in /v1, containing /v1
LocalEndpoints == {<<>>, <<Host>>, <<Host, V1>>, <<Host, V1, "/api">>}

HostedSettings ==
    {[Configured EXCEPT !.selectedAIProvider = p, !.apiKeys[p] = k]
        : p \in HostedChat, k \in {"", "sk-key"}}

LocalSettings ==
    {[Configured EXCEPT !.selectedAIProvider = "local",
                        !.localSetup = [present |-> TRUE, endpoint |-> e, model |-> m]]
        : e \in LocalEndpoints, m \in {"", "llama-3.1"}}
    \cup {[Configured EXCEPT !.selectedAIProvider = "local", !.localSetup = NoLocalSetup]}

OpenRouterSettings ==
    {[Configured EXCEPT !.selectedAIProvider = "openrouter",
                        !.openRouterConfig.apiKey = k,
                        !.selectedModel["openrouter"] = m]
        : k \in {"", "sk-or"}, m \in {"", "openai/gpt-4o"}}

CustomConfigs ==
    {NoCustomConfig,
     [present |-> TRUE, baseUrl |-> <<"https://llm.example.com">>, apiKey |-> "sk-c", model |-> "m1"],
     [present |-> TRUE, baseUrl |-> <<>>, apiKey |-> "sk-c", model |-> "m1"],
     [present |-> TRUE, baseUrl |-> <<"https://llm.example.com">>, apiKey |-> "", model |-> "m1"],
     [present |-> TRUE, baseUrl |-> <<"https://llm.example.com">>, apiKey |-> "sk-c", model |-> ""]}

ManualSettings ==
    {[Configured EXCEPT !.selectedAIProvider = "manual", !.apiKeys["manual"] = "sk-m",
                        !.customProviderConfig = c] : c \in CustomConfigs}
    \cup {[Configured EXCEPT !.selectedAIProvider = "manual"]}

OtherSettings ==
    {DEFAULT_SETTINGS,
     [DEFAULT_SETTINGS EXCEPT !.apiKeys["openai"] = "sk-key"],
     [Configured EXCEPT !.selectedAIProvider = ""],
     [Configured EXCEPT !.selectedAIProvider = "custom", !.apiKeys["custom"] = "sk-x"]}

SettingsSet ==
    HostedSettings \cup LocalSettings \cup OpenRouterSettings \cup ManualSettings \cup OtherSettings

\* ------------------------------------------------------------ request data

NL == "\n"

\* the characters \s matches
White == {" ", NL}

RECURSIVE trimStart(_)
trimStart(str) ==
    IF str # <<>> /\ Head(str) \in White THEN trimStart(Tail(str)) ELSE str

RECURSIVE trimEnd(_)
trimEnd(str) ==
    IF str # <<>> /\ str[Len(str)] \in White
    THEN trimEnd(SubSeq(str, 1, Len(str) - 1))
    ELSE str

\* String.prototype.trim on a string of characters
trim(str) == trimEnd(trimStart(str))

\* the data of a generateTest message: the prompt (none, blank, a scenario)
\* and the number of elements
DataSet ==
    {[userPrompt |-> <<"c">>, elements |-> 1],
     [userPrompt |-> <<" ">>, elements |-> 1],
     [userPrompt |-> <<>>, elements |-> 1],
     [userPrompt |-> <<>>, elements |-> 0]}

NoData == [userPrompt |-> <<>>, elements |-> 0]

\* ----------------------------------------------------- the provider functions

\* What a provider function does before its first await: it throws, or it
\* issues one request through loggedFetch.
Throw(msg) ==
    [kind |-> "throw", msg |-> msg, url |-> <<>>, auth |-> "", label |-> "",
     model |-> "", endpoint |-> <<>>]

Fetch(url, auth, label, model, endpoint) ==
    [kind |-> "fetch", msg |-> "", url |-> url, auth |-> auth, label |-> label,
     model |-> model, endpoint |-> endpoint]

\* callOpenAI, callAnthropic, callDeepSeek, callGroq: no check of the key
callHosted(provider, apiKey, model) ==
    Fetch(HostedUrl(provider), apiKey, HostedLabel(provider),
          IF model # "" THEN model ELSE HostedDefaultModel(provider), <<>>)

callLocalProviderNoModelCheck(config) ==
    IF ~config.present THEN Throw(ErrLocalConfig)
    ELSE IF config.endpoint = <<>> THEN Throw(ErrLocalEndpoint)
    ELSE IF IsOpenAICompatible(config.endpoint)
         THEN Fetch(chatUrl(config.endpoint), "", "Local Provider", config.model, config.endpoint)
         ELSE Fetch(generateUrl(config.endpoint), "", "Local Provider", config.model, config.endpoint)

\* callLocalProvider up to its first loggedFetch (the prompt is never empty)
callLocalProvider(config) ==
    IF ~config.present THEN Throw(ErrLocalConfig)
    ELSE IF config.endpoint = <<>> THEN Throw(ErrLocalEndpoint)
    ELSE IF config.model = "" THEN Throw(ErrLocalModel)
    ELSE IF IsOpenAICompatible(config.endpoint)
         THEN Fetch(chatUrl(config.endpoint), "", "Local Provider", config.model, config.endpoint)
         ELSE Fetch(generateUrl(config.endpoint), "", "Local Provider", config.model, config.endpoint)

\* callOpenRouter up to its loggedFetch
callOpenRouter(config, model) ==
    IF ~config.present \/ config.apiKey = "" THEN Throw(ErrOpenRouterConfig)
    ELSE IF model = "" THEN Throw(ErrOpenRouterModel)
    ELSE Fetch(OpenRouterUrl, config.apiKey, "OpenRouter", model, <<>>)

\* callCustomProvider up to its loggedFetch
callCustomProvider(config) ==
    IF ~config.present THEN Throw(ErrCustomConfig)
    ELSE IF config.baseUrl = <<>> \/ config.apiKey = "" \/ config.model = ""
         THEN Throw(ErrCustomIncomplete)
    ELSE Fetch(config.baseUrl \o <<"/chat/completions">>, config.apiKey,
               "Custom Provider", config.model, <<>>)

\* callAIProvider: the switch over the provider identifier
callAIProvider(provider, apiKey, s) ==
    LET selectedModel == s.selectedModel[provider]
    IN  CASE provider \in HostedChat -> callHosted(provider, apiKey, selectedModel)
          [] provider = "local" -> callLocalProvider(s.localSetup)
          [] provider = "openrouter" -> callOpenRouter(s.openRouterConfig, selectedModel)
          [] provider = "manual" -> callCustomProvider(s.customProviderConfig)
          [] OTHER -> Throw(ErrUnsupported)

\* ------------------------------------------------- handleGenerateTest's checks

apiKeyMissingNever(apiKey) == FALSE

\* if (!apiKey)
apiKeyMissing(apiKey) == apiKey = ""

\* handleGenerateTest from the settings to the framework check: the error it
\* answers with, or the key it dispatches with
handlerCheck(s) ==
    LET provider == s.selectedAIProvider
        apiKey == IF provider = "local" THEN ""
                  ELSE IF provider = "openrouter"
                       THEN (IF s.openRouterConfig.present THEN s.openRouterConfig.apiKey ELSE "")
                       ELSE s.apiKeys[provider]
    IN  IF provider = "" THEN [ok |-> FALSE, msg |-> ErrNoProvider, apiKey |-> ""]
        ELSE IF provider = "local" /\ (~s.localSetup.present \/ s.localSetup.endpoint = <<>>)
             THEN [ok |-> FALSE, msg |-> ErrLocalEndpointHandler, apiKey |-> ""]
        ELSE IF provider = "openrouter" /\ apiKeyMissing(apiKey)
             THEN [ok |-> FALSE, msg |-> ErrOpenRouterKey, apiKey |-> ""]
        ELSE IF provider \notin {"local", "openrouter"} /\ apiKeyMissing(apiKey)
             THEN [ok |-> FALSE, msg |-> KeyNotConfigured(provider), apiKey |-> ""]
        ELSE IF ~getTemplateByFramework(s.selectedFramework)
             THEN [ok |-> FALSE, msg |-> ErrFramework, apiKey |-> ""]
        ELSE [ok |-> TRUE, msg |-> "", apiKey |-> apiKey]

\* the branch of handleGenerateTest that produces the code
usesTemplate(data) ==
    trim(data.userPrompt) = <<>> /\ data.elements > 0

\* ------------------------------------------------------------ HTTP responses

\* What one fetch can end in: a response (status and kind of body) or a
\* rejection at network level.  The kinds of body: "content" holds the
\* provider's content field with fence-free code, "empty" holds it with an
\* empty string, "nofield" is JSON with neither it nor error.message,
\* "errmsg" is JSON with error.message, "nonjson" is not JSON.
AllOutcomes ==
    [status : {200}, body : {"content", "empty", "nofield", "nonjson"}, neterr : {FALSE}]
    \cup [status : {401, 403, 404, 429, 500}, body : {"errmsg", "nofield", "nonjson"}, neterr : {FALSE}]
    \cup {[status |-> 0, body |-> "", neterr |-> TRUE]}

\* the outcomes the control flow tells apart, for the runs with overlapping
\* requests: success, 404, another client error, a server error, no response
Outcomes ==
    {o \in AllOutcomes : \/ o.neterr
                         \/ o.status = 200 /\ o.body = "content"
                         \/ o.status \in {404, 429, 500} /\ o.body = "errmsg"}

NoResp == [status |-> 0, body |-> "", neterr |-> FALSE]

\* Response.ok
ok(resp) == resp.status >= 200 /\ resp.status <= 299

Returns(value) == [ok |-> TRUE, value |-> value]

Rejects(msg) == [ok |-> FALSE, value |-> msg]

parseChatRejectsEmpty(provider, resp) ==
    IF resp.body = "nonjson" THEN Rejects(ErrJson)
    ELSE IF ~ok(resp) THEN Rejects(ApiErrorDefault(provider))
    ELSE IF resp.body = "content" THEN Returns("code")
    ELSE Rejects(ErrLocalNoContent)

\* the content the hosted, OpenRouter and custom functions read at
\* choices[0].message.content (content[0].text for Anthropic)
parseChat(provider, resp) ==
    IF resp.body = "nonjson" THEN Rejects(ErrJson)
    ELSE IF ~ok(resp)
         THEN Rejects(IF resp.body = "errmsg" THEN ErrBodyMessage ELSE ApiErrorDefault(provider))
    ELSE IF resp.body = "content" THEN Returns("code")
    ELSE IF resp.body = "empty" THEN Returns("")
    ELSE Rejects(ErrUndefined)

parseLocalAcceptsEmpty(resp) ==
    IF ~ok(resp) THEN Rejects(ErrLocalOther)
    ELSE IF resp.body = "nonjson" THEN Rejects(ErrJson)
    ELSE IF resp.body = "content" THEN Returns("code")
    ELSE IF resp.body = "empty" THEN Returns("")
    ELSE Rejects(ErrLocalNoContent)

\* callLocalProvider after its last loggedFetch
parseLocal(resp) ==
    IF ~ok(resp)
    THEN Rejects(IF resp.status = 403 THEN ErrLocal403
                 ELSE IF resp.status = 404 THEN ErrLocal404
                 ELSE IF resp.status >= 500 THEN ErrLocal5xx
                 ELSE ErrLocalOther)
    ELSE IF resp.body = "nonjson" THEN Rejects(ErrJson)
    ELSE IF resp.body = "content" THEN Returns("code")
    ELSE Rejects(ErrLocalNoContent)

parseBody(provider, resp) ==
    IF provider = "local" THEN parseLocal(resp) ELSE parseChat(provider, resp)

\* the TypeError fetch rejects with when no response arrives (name, and the
\* words of its message)
FetchError == [name |-> "TypeError", message |-> <<"Failed", "to", "fetch">>]

isFetchTypeErrorNever(error) == FALSE

\* the catch of callLocalProvider: error.name === 'TypeError' &&
\* error.message.includes('fetch')
isFetchTypeError(error) ==
    error.name = "TypeError" /\ \E i \in 1..Len(error.message) : error.message[i] = "fetch"

\* what the provider function rejects with when fetch itself rejects
networkError(provider) ==
    IF provider = "local" /\ isFetchTypeError(FetchError)
    THEN Rejects(ErrLocalConnect)
    ELSE Rejects(ErrFetch)

RetriesLegacyOnEvery404(provider, endpoint, attempt, status) ==
    provider = "local" /\ IsOpenAICompatible(endpoint) /\ status = 404

RetriesLegacyOnAnyError(provider, endpoint, attempt, status) ==
    provider = "local" /\ IsOpenAICompatible(endpoint) /\ attempt = 1 /\ status # 200

\* callLocalProvider: the one fallback to the legacy completions endpoint,
\* after the chat-completions attempt (the first) and nowhere else
RetriesLegacy(provider, endpoint, attempt, status) ==
    provider = "local" /\ IsOpenAICompatible(endpoint) /\ attempt = 1 /\ status = 404

\* ------------------------------------------------------------------- the log

\* the APICallLog loggedFetch builds: the request and the response, or
\* status 0 with the error message
apiCallLog(r, n, f, url, o) ==
    [id |-> <<r, n>>, provider |-> f.label, model |-> f.model, url |-> url,
     status |-> o.status, body |-> o.body,
     error |-> IF o.neterr THEN ErrFetch ELSE ""]

pushNothing(logs, entry) == logs

pushUnlessError(logs, entry) == IF entry.error # "" THEN logs ELSE Append(logs, entry)

\* currentAPICallLogs.push(apiCallLog), in the try and in the catch of loggedFetch
push(logs, entry) == Append(logs, entry)

generatedTestWithoutLogs(code, logs) == [code |-> code, apiCalls |-> <<>>]

\* the GeneratedTest of handleGenerateTest: apiCalls is a copy of the log
generatedTest(code, logs) == [code |-> code, apiCalls |-> logs]

\* the arguments of sendResponse
successResponse(test) == [success |-> TRUE, error |-> "", test |-> <<test>>]

errorResponse(msg) == [success |-> FALSE, error |-> msg, test |-> <<>>]

\* --------------------------------------------------------- the response cleaner

\* A response text is a sequence of characters.  The three backticks of a
\* fence and a recognized language tag are one character each; "a" is a
\* letter, "x" a character that is neither a letter nor white space.
Fence == "<fence>"

Tag == "ts"

Letters == {"a", Tag}

Chars == {"a", "x", " ", NL, Fence, Tag, "(", ")"}

\* what . matches
NotNL == Chars \ {NL}

\* the elements of a regular expression: a character class with a quantifier
One(class) == [class |-> class, min |-> 1, many |-> FALSE]

Opt(class) == [class |-> class, min |-> 0, many |-> FALSE]

Plus(class) == [class |-> class, min |-> 1, many |-> TRUE]

Star(class) == [class |-> class, min |-> 0, many |-> TRUE]

\* the number of characters of str from position i on that are in the class
RECURSIVE run(_, _, _)
run(str, i, class) ==
    IF i <= Len(str) /\ str[i] \in class THEN 1 + run(str, i + 1, class) ELSE 0

\* The backtracking match of the elements pat[k..] at position i of str: the
\* position after the match, or 0 when there is none.  Every quantifier is
\* greedy: it takes as many characters as it can and gives them back one by
\* one while the rest does not match.  With toEnd the pattern ends in $.
RECURSIVE matchFrom(_, _, _, _, _)
RECURSIVE giveBack(_, _, _, _, _, _)
matchFrom(pat, k, str, i, toEnd) ==
    IF k > Len(pat)
    THEN (IF toEnd /\ i # Len(str) + 1 THEN 0 ELSE i)
    ELSE LET r == run(str, i, pat[k].class)
         IN  giveBack(pat, k, str, i, toEnd, IF pat[k].many \/ r = 0 THEN r ELSE 1)

giveBack(pat, k, str, i, toEnd, n) ==
    IF n < pat[k].min THEN 0
    ELSE LET e == matchFrom(pat, k + 1, str, i + n, toEnd)
         IN  IF e # 0 THEN e
             ELSE IF n = 0 THEN 0
             ELSE giveBack(pat, k, str, i, toEnd, n - 1)

\* the leftmost position from i on at which the pattern matches, or 0
RECURSIVE search(_, _, _, _)
search(str, pat, i, toEnd) ==
    IF i > Len(str) + 1 THEN 0
    ELSE IF matchFrom(pat, 1, str, i, toEnd) # 0 THEN i
    ELSE search(str, pat, i + 1, toEnd)

\* String.prototype.replace with the empty string as replacement and without
\* the g flag: the first match is removed; atStart is a pattern that begins
\* with ^
replace(str, pat, atStart, toEnd) ==
    LET i == IF atStart
             THEN (IF matchFrom(pat, 1, str, 1, toEnd) # 0 THEN 1 ELSE 0)
             ELSE search(str, pat, 1, toEnd)
    IN  IF i = 0 THEN str
        ELSE SubSeq(str, 1, i - 1) \o SubSeq(str, matchFrom(pat, 1, str, i, toEnd), Len(str))

\* /^[A-Za-z\s\(\)]+\([A-Za-z\s]+\)\s*\([A-Za-z\s]+\)\s*\n/
frameworkNamePattern ==
    <<Plus(Letters \cup White \cup {"(", ")"}),
      One({"("}), Plus(Letters \cup White), One({")"}), Star(White),
      One({"("}), Plus(Letters \cup White), One({")"}), Star(White),
      One({NL})>>

\* /^```(?:typescript|javascript|python|java|js|ts)?\s*\n/
openingFence == <<One({Fence}), Opt({Tag}), Star(White), One({NL})>>

\* /\n```\s*$/
closingFence == <<One({NL}), One({Fence}), Star(White)>>

\* /^```.*\n/
remainingOpening == <<One({Fence}), Star(NotNL), One({NL})>>

\* /\n```.*$/
remainingClosing == <<One({NL}), One({Fence}), Star(NotNL)>>

cleanAIResponse(content) ==
    LET trimmed == trim(content)
        noHeader == replace(trimmed, frameworkNamePattern, TRUE, FALSE)
        noOpening == replace(noHeader, openingFence, TRUE, FALSE)
        noClosing == replace(noOpening, closingFence, FALSE, TRUE)
        noMarkers == replace(replace(noClosing, remainingOpening, TRUE, FALSE),
                             remainingClosing, FALSE, TRUE)
    IN  trim(noMarkers)

\* --------------------------------------------------------- the prompt builder

\* A prompt is the sequence of its lines, a line the sequence of the pieces
\* the template puts together; an absent or empty string property is "".
Digits == <<"0", "1", "2", "3", "4", "5", "6", "7", "8", "9">>

\* the decimal digits of `${n}`
RECURSIVE toString(_)
toString(n) ==
    IF n < 10 THEN <<Digits[n + 1]>>
    ELSE toString(n \div 10) \o <<Digits[(n % 10) + 1]>>

toUpperCase(type) ==
    CASE type = "click" -> "CLICK"
      [] type = "type" -> "TYPE"
      [] OTHER -> "HOVER"

\* the pieces, left out when the string is empty
optional(prefix, str) == IF str # "" THEN <<prefix, str>> ELSE <<>>

\* elementInfo += (...).trim(): the text goes on the last line
appendToLast(lines, pieces) ==
    [lines EXCEPT ![Len(lines)] = @ \o pieces]

elementInfoUnnumbered(action, index) ==
    <<<<toUpperCase(action.type), " on element: ", action.element.tagName>>>>

\* the callback of actions.map: the lines of one action
elementInfo(action, index) ==
    LET element == action.element
        head == <<toString(index + 1) \o <<". ", toUpperCase(action.type), " on element: ",
                                            element.tagName>>
                      \o optional("#", element.id) \o optional(".", element.className),
                  <<"     Selector: ", element.cssSelector>>,
                  <<"     XPath: ", element.xpath>>,
                  <<"     Text Content: ">>
                      \o (IF element.textContent # <<>> THEN element.textContent ELSE <<"N/A">>)>>
        withContext ==
            IF element.context
            THEN head \o <<<<"     Position: ", "0, 0 (10x10)">>, <<"     Visible: ", "true">>>>
            ELSE head
        withAccessibility ==
            IF element.role # ""
            THEN appendToLast(withContext, <<"Accessibility: role=", element.role>>)
            ELSE withContext
    IN  withAccessibility
            \o <<<<"     ">> \o optional("Value: ", action.value),
                 <<"     Description: ", action.description>>>>

\* actions.map(...).join('\n'): the lines of every action, the empty string
\* (one empty line) for no action
RECURSIVE mapJoin(_, _)
mapJoin(actions, index) ==
    IF index >= Len(actions) THEN <<>>
    ELSE elementInfo(actions[index + 1], index) \o mapJoin(actions, index + 1)

buildPrompt(data, framework, options) ==
    <<<<"Generate ", framework.name, " test code in ", framework.language,
        " for the following scenario:">>,
      <<>>,
      <<"User Request: ",
        IF data.userPrompt # "" THEN data.userPrompt
        ELSE "Generate test for the selected elements">>>>
    \o (IF data.pageContext
        THEN <<<<>>, <<"Page Context:">>, <<"- URL: ", "https://example.com">>,
               <<"- Title: ", "Example">>, <<"- Selected Elements: ", "1">>>>
        ELSE <<>>)
    \o <<<<>>, <<"Elements and Actions:">>>>
    \o (IF data.actions = <<>> THEN <<<<>>>> ELSE mapJoin(data.actions, 0))
    \o <<<<>>, <<"Requirements:">>,
         <<"- Use modern best practices for ", framework.name>>,
         <<"- Include proper waits and error handling">>,
         <<"- Use reliable selectors (prefer CSS selectors over XPath when possible)">>,
         <<"- Follow ", framework.language, " coding conventions">>,
         <<"- Make the test maintainable and readable">>,
         <<"- Handle potential race conditions and flaky elements">>,
         <<"- Use appropriate assertions for validation">>>>
    \o (IF options.includeComments
        THEN <<<<"- Add descriptive comments explaining each step">>>> ELSE <<>>)
    \o (IF options.usePageObjectModel
        THEN <<<<"- Structure the code using Page Object Model pattern">>>> ELSE <<>>)
    \o <<<<>>, <<"Generate only the test code without explanations or markdown formatting.">>>>

\* --------------------------------------------------- the OpenRouter model list

\* str.includes(piece), for a text given as the sequence of its pieces
includes(str, piece) == \E i \in 1..Len(str) : str[i] = piece

statusText(status) ==
    CASE status = 200 -> "OK"
      [] status = 401 -> "Unauthorized"
      [] OTHER -> "Internal Server Error"

ErrModelsNonJson == <<"OpenRouter API returned non-JSON response. Please check your API key.">>

ErrModelsFormat == <<"Invalid response format from OpenRouter API">>

ErrModelsHtml ==
    <<"OpenRouter API returned HTML instead of JSON. Please check your API key and try again.">>

ErrInvalidKey == "Invalid API key or endpoint."

\* the messages of the errors of response.json(), of data.data.map on a value
\* that is no list, and of fetch
ErrUnexpectedToken == <<"Unexpected token", " '<', is not valid JSON">>

ErrUnexpectedEnd == <<"Unexpected end of JSON input">>

ErrNotAFunction == <<"data.data?.map is not a function">>

ErrFailedToFetch == <<"Failed to fetch">>

\* the message thrown for a response that is not ok
ErrModelsApi(status, errorText) ==
    <<"OpenRouter API error: ">> \o toString(status) \o <<" ", statusText(status), ". ">>
        \o (IF includes(errorText, "<!DOCTYPE") THEN <<ErrInvalidKey>> ELSE errorText)

\* a body is JSON (an object, with or without data; data a list or not) or a
\* text that is not JSON
JsonBody(hasData, isList, data) ==
    [json |-> TRUE, text |-> <<"{...}">>, hasData |-> hasData, isList |-> isList, data |-> data]

TextBody(text) ==
    [json |-> FALSE, text |-> text, hasData |-> FALSE, isList |-> FALSE, data |-> <<>>]

NoPricing == [present |-> FALSE, map |-> {}]

toModelNameOnly(model) ==
    [id |-> model.id, name |-> model.name, context_length |-> model.context_length,
     pricing |-> model.pricing.map]

\* the callback of data.data.map: one entry of the catalog
toModel(model) ==
    [id |-> model.id,
     name |-> IF model.name # "" THEN model.name ELSE model.id,
     context_length |-> IF model.context_length # 0 THEN model.context_length ELSE 0,
     pricing |-> IF model.pricing.present THEN model.pricing.map ELSE {}]

\* fetchOpenRouterModels after `await fetch`: the try
modelsTry(o) ==
    IF o.neterr THEN Rejects(ErrFailedToFetch)
    ELSE IF ~ok(o) THEN Rejects(ErrModelsApi(o.status, o.body.text))
    ELSE IF ~includes(o.contentType, "application/json") THEN Rejects(ErrModelsNonJson)
    ELSE IF ~o.body.json
         THEN Rejects(IF o.body.text = <<>> THEN ErrUnexpectedEnd ELSE ErrUnexpectedToken)
    ELSE IF ~o.body.hasData THEN Rejects(ErrModelsFormat)
    ELSE IF ~o.body.isList THEN Rejects(ErrNotAFunction)
    ELSE Returns([i \in 1..Len(o.body.data) |-> toModel(o.body.data[i])])

\* fetchOpenRouterModels after `await fetch`: the try and the catch
fetchOpenRouterModels(o) ==
    LET result == modelsTry(o)
    IN  IF ~result.ok /\ includes(result.value, "Unexpected token")
        THEN Rejects(ErrModelsHtml)
        ELSE result

\* ------------------------------------------- the content of a local response

\* the fields of the parsed body that callLocalProvider looks at:
\* choices[0].message.content, choices[0].text, content, text, response
LocalFields == {"choices[0].message.content", "choices[0].text", "content", "text", "response"}

\* a field that is absent (undefined), or present with a string
Undefined == [present |-> FALSE, value |-> <<>>]

Str(value) == [present |-> TRUE, value |-> value]

\* the text each field holds when it is not empty: one text per field
FieldText(field) ==
    CASE field = "choices[0].message.content" -> <<"a">>
      [] field = "choices[0].text" -> <<"x">>
      [] field = "content" -> <<"a", "x">>
      [] field = "text" -> <<"x", "a">>
      [] OTHER -> <<"a", "a">>

\* the parsed bodies: every field absent, empty or with its text
LocalBodies ==
    {[f \in LocalFields |-> IF f \in some THEN Str(FieldText(f)) ELSE other[f]] :
        some \in SUBSET LocalFields, other \in [LocalFields -> {Undefined, Str(<<>>)}]}

\* a || b
or(a, b) == IF a.present /\ a.value # <<>> THEN a ELSE b

extractContentFirst(isOpenAICompatible, data) ==
    IF isOpenAICompatible
    THEN or(or(or(data["content"], data["choices[0].message.content"]),
               data["choices[0].text"]), data["text"])
    ELSE or(or(data["content"], data["response"]), data["text"])

\* callLocalProvider: `content = ...`
extractContent(isOpenAICompatible, data) ==
    IF isOpenAICompatible
    THEN or(or(or(data["choices[0].message.content"], data["choices[0].text"]),
               data["content"]), data["text"])
    ELSE or(or(data["response"], data["text"]), data["content"])

\* callLocalProvider from the parsed body of a 2xx response to its end
localContent(isOpenAICompatible, data) ==
    LET content == extractContent(isOpenAICompatible, data)
    IN  IF ~content.present \/ content.value = <<>>
        THEN Rejects(ErrLocalNoContent)
        ELSE Returns(cleanAIResponse(content.value))

last(seq) == seq[Len(seq)]

butLast(seq) == SubSeq(seq, 1, Len(seq) - 1)

\* ---------------------------------------------------------------------- state

VARIABLES
    settings,            \* chrome.storage.sync: the stored settings
    currentAPICallLogs,  \* the module-level log of API calls
    frame,               \* per request: where its async call chain is suspended, and its locals
    http,                \* per request: the requests fetch has issued, each with its state
    returned,            \* per request: what callAIProvider returned or threw
    responses,           \* per request: the arguments of every sendResponse call
    popup,               \* per request: the actions sent with chrome.runtime.sendMessage
    accessOrder,         \* history: the requests in the order they touched currentAPICallLogs
    call                 \* a helper function called by itself: its input and what it returned

\* the state of the generateTest handler
machine == <<settings, currentAPICallLogs, frame, http, returned, responses, popup, accessOrder>>

vars == <<settings, currentAPICallLogs, frame, http, returned, responses, popup, accessOrder, call>>

\* no helper function is being looked at
NoCall == [fn |-> "none"]

IdleFrame ==
    [pc |-> "idle", entry |-> "", data |-> NoData, provider |-> "", apiKey |-> "",
     endpoint |-> <<>>, label |-> "", model |-> "", resp |-> NoResp]

Init ==
    /\ settings \in SettingsSet
    /\ currentAPICallLogs = <<>>
    /\ frame = [r \in Requests |-> IdleFrame]
    /\ http = [r \in Requests |-> <<>>]
    /\ returned = [r \in Requests |-> <<>>]
    /\ responses = [r \in Requests |-> <<>>]
    /\ popup = [r \in Requests |-> <<>>]
    /\ accessOrder = <<>>
    /\ call = NoCall

\* requests are numbered in the order they arrive
Arrived == {r \in Requests : frame[r].pc # "idle"}

InFlight == {r \in Requests : frame[r].pc \notin {"idle", "done"}}

\* a request touches the log: consecutive touches of one request count once
touch(order, r) ==
    IF order # <<>> /\ order[Len(order)] = r THEN order ELSE Append(order, r)

\* the request fetch has just issued
sent(url, auth) ==
    [url |-> url, auth |-> auth, state |-> "inflight", status |-> 0, body |-> ""]

\* the same request once fetch has settled
settled(req, o) == [req EXCEPT !.state = IF o.neterr THEN "failed" ELSE "responded",
                               !.status = o.status, !.body = o.body]

\* sendErrorToPopupAndResponse, and the catch of handleGenerateTest
sendError(r, msg) ==
    /\ popup' = [popup EXCEPT ![r] = Append(@, "testGenerationError")]
    /\ responses' = [responses EXCEPT ![r] = Append(@, errorResponse(msg))]

\* the end of handleGenerateTest's try: the test is built from the log
sendTest(r, code) ==
    /\ popup' = [popup EXCEPT ![r] = Append(@, "testGenerated")]
    /\ responses' = [responses EXCEPT
           ![r] = Append(@, successResponse(generatedTest(code, currentAPICallLogs)))]

\* the provider function starts: it throws or issues its first request
start(r, entry, provider, apiKey, plan) ==
    /\ frame' = [frame EXCEPT ![r] =
           [pc |-> IF plan.kind = "fetch" THEN "fetch" ELSE "done",
            entry |-> entry, data |-> NoData, provider |-> provider, apiKey |-> apiKey,
            endpoint |-> plan.endpoint, label |-> plan.label, model |-> plan.model,
            resp |-> NoResp]]
    /\ IF plan.kind = "fetch"
       THEN /\ http' = [http EXCEPT ![r] = Append(@, sent(plan.url, plan.auth))]
            /\ UNCHANGED returned
       ELSE /\ returned' = [returned EXCEPT ![r] = <<Rejects(plan.msg)>>]
            /\ UNCHANGED http

\* the onMessage listener on a generateTest message: handleGenerateTest up to
\* `await getStoredSettings()`
OnGenerateTest(r, data) ==
    /\ frame[r].pc = "idle"
    /\ r = Cardinality(Arrived) + 1
    /\ currentAPICallLogs' = <<>>
    /\ accessOrder' = touch(accessOrder, r)
    /\ frame' = [frame EXCEPT ![r] = [IdleFrame EXCEPT !.pc = "settings",
                                                        !.entry = "handler",
                                                        !.data = data]]
    /\ UNCHANGED <<settings, http, returned, responses, popup, call>>

\* handleGenerateTest once the settings have arrived, up to the first fetch
\* of the provider function or to the response
SettingsLoaded(r) ==
    /\ frame[r].pc = "settings"
    /\ LET s == settings
           chk == handlerCheck(s)
           data == frame[r].data
           plan == callAIProvider(s.selectedAIProvider, chk.apiKey, s)
       IN  IF ~chk.ok
           THEN /\ sendError(r, chk.msg)
                /\ frame' = [frame EXCEPT ![r] = [@ EXCEPT !.pc = "done", !.data = NoData,
                                                           !.provider = s.selectedAIProvider]]
                /\ UNCHANGED <<http, returned, accessOrder>>
           ELSE IF usesTemplate(data)
           THEN /\ sendTest(r, "template code")
                /\ accessOrder' = touch(accessOrder, r)
                /\ frame' = [frame EXCEPT ![r] = [@ EXCEPT !.pc = "done", !.data = NoData,
                                                           !.provider = s.selectedAIProvider]]
                /\ UNCHANGED <<http, returned>>
           ELSE /\ start(r, "handler", s.selectedAIProvider, chk.apiKey, plan)
                /\ IF plan.kind = "throw"
                   THEN sendError(r, plan.msg)
                   ELSE UNCHANGED <<responses, popup>>
                /\ UNCHANGED accessOrder
    /\ UNCHANGED <<settings, currentAPICallLogs, call>>

\* loggedFetch after `await fetch` and `await response.text()`: the entry is
\* pushed; then the provider function goes on to its next await, which is the
\* legacy request, the parsing of the body, or the end with the network error
FetchSettles(r, o) ==
    /\ frame[r].pc = "fetch"
    /\ LET f == frame[r]
           n == Len(http[r])
           req == http[r][n]
           entry == apiCallLog(r, n, f, req.url, o)
           done == [http EXCEPT ![r][n] = settled(req, o)]
       IN  /\ currentAPICallLogs' = push(currentAPICallLogs, entry)
           /\ accessOrder' = touch(accessOrder, r)
           /\ IF o.neterr
              THEN /\ http' = done
                   /\ returned' = [returned EXCEPT ![r] = <<networkError(f.provider)>>]
                   /\ frame' = [frame EXCEPT ![r].pc = "done"]
                   /\ IF f.entry = "handler"
                      THEN sendError(r, networkError(f.provider).value)
                      ELSE UNCHANGED <<responses, popup>>
              ELSE IF RetriesLegacy(f.provider, f.endpoint, n, o.status)
              THEN /\ http' = [done EXCEPT ![r] = Append(@, sent(compUrl(f.endpoint), ""))]
                   /\ UNCHANGED <<frame, returned, responses, popup>>
              ELSE /\ http' = done
                   /\ frame' = [frame EXCEPT ![r].pc = "json", ![r].resp = o]
                   /\ UNCHANGED <<returned, responses, popup>>
    /\ UNCHANGED <<settings, call>>

\* the provider function after `await response.json()` (response.text() for a
\* local error), and handleGenerateTest after `await callAIProvider(...)`
BodyParsed(r) ==
    /\ frame[r].pc = "json"
    /\ LET f == frame[r]
           result == parseBody(f.provider, f.resp)
       IN  /\ returned' = [returned EXCEPT ![r] = <<result>>]
           /\ frame' = [frame EXCEPT ![r].pc = "done", ![r].resp = NoResp]
           /\ IF f.entry # "handler"
              THEN UNCHANGED <<responses, popup, accessOrder>>
              ELSE IF result.ok
              THEN /\ sendTest(r, result.value)
                   /\ accessOrder' = touch(accessOrder, r)
              ELSE /\ sendError(r, result.value)
                   /\ UNCHANGED accessOrder
    /\ UNCHANGED <<settings, currentAPICallLogs, http, call>>

Next ==
    \/ \E r \in Requests, data \in DataSet : OnGenerateTest(r, data)
    \/ \E r \in Requests : SettingsLoaded(r)
    \/ \E r \in Requests, o \in Outcomes : FetchSettles(r, o)
    \/ \E r \in Requests : BodyParsed(r)

Spec == Init /\ [][Next]_vars

\* ------------------------------------------- one generation in flight at a time

\* a generateTest message that arrives when no generation is in flight
OnGenerateTestAlone(r, data) ==
    /\ InFlight = {}
    /\ OnGenerateTest(r, data)

NextSingle ==
    \/ \E r \in Requests, data \in DataSet : OnGenerateTestAlone(r, data)
    \/ \E r \in Requests : SettingsLoaded(r)
    \/ \E r \in Requests, o \in AllOutcomes : FetchSettles(r, o)
    \/ \E r \in Requests : BodyParsed(r)

SpecSingle == Init /\ [][NextSingle]_vars

\* ------------------------------------------- the dispatch entry point by itself

\* callAIProvider called with a key of the caller's choice, up to the first
\* fetch of the provider function
DirectDispatch(r, apiKey) ==
    /\ InFlight = {}
    /\ frame[r].pc = "idle"
    /\ r = Cardinality(Arrived) + 1
    /\ settings.selectedAIProvider \in ProviderIds
    /\ start(r, "direct", settings.selectedAIProvider, apiKey,
             callAIProvider(settings.selectedAIProvider, apiKey, settings))
    /\ UNCHANGED <<settings, currentAPICallLogs, responses, popup, accessOrder, call>>

NextDispatch ==
    \/ \E r \in Requests, data \in DataSet : OnGenerateTestAlone(r, data)
    \/ \E r \in Requests, apiKey \in {"", "sk-key"} : DirectDispatch(r, apiKey)
    \/ \E r \in Requests : SettingsLoaded(r)
    \/ \E r \in Requests, o \in Outcomes : FetchSettles(r, o)
    \/ \E r \in Requests : BodyParsed(r)

SpecDispatch == Init /\ [][NextDispatch]_vars

\* ------------------------------------------------- the response cleaner by itself

\* the pieces a response text is put together from
MaxParts == 4

\* a framework name header line, as in "Playwright (TypeScript) (TypeScript)"
Header == <<"a", "(", "a", ")", "(", "a", ")", NL>>

\* characters, an opening fence line without and with a language tag, the
\* closing fence at the start of a line, a header line
Parts ==
    {<<"a">>, <<"x">>, <<" ">>, <<NL>>, <<Fence>>, <<Tag>>,
     <<Fence, NL>>, <<Fence, Tag, NL>>, <<NL, Fence>>, Header}

RECURSIVE flatten(_)
flatten(parts) == IF parts = <<>> THEN <<>> ELSE Head(parts) \o flatten(Tail(parts))

Texts == {flatten(parts) : parts \in UNION {[1..n -> Parts] : n \in 0..MaxParts}}

\* the handler is idle with the settings of a configured installation
Quiescent ==
    /\ settings = Configured
    /\ currentAPICallLogs = <<>>
    /\ frame = [r \in Requests |-> IdleFrame]
    /\ http = [r \in Requests |-> <<>>]
    /\ returned = [r \in Requests |-> <<>>]
    /\ responses = [r \in Requests |-> <<>>]
    /\ popup = [r \in Requests |-> <<>>]
    /\ accessOrder = <<>>

InitClean ==
    /\ Quiescent
    /\ \E content \in Texts : call = [fn |-> "cleanAIResponse", input |-> content, outputs |-> <<>>]

\* cleanAIResponse applied to the text, and then to what it returned
Clean ==
    /\ call.fn = "cleanAIResponse"
    /\ Len(call.outputs) < 2
    /\ call' = [call EXCEPT !.outputs =
                   Append(@, cleanAIResponse(IF @ = <<>> THEN call.input ELSE last(@)))]
    /\ UNCHANGED machine

NextClean == Clean

SpecClean == InitClean /\ [][NextClean]_vars

\* --------------------------------- the content extraction of callLocalProvider

InitExtract ==
    /\ Quiescent
    /\ \E compatible \in BOOLEAN, data \in LocalBodies :
           call = [fn |-> "localContent", isOpenAICompatible |-> compatible,
                   data |-> data, result |-> <<>>]

\* callLocalProvider after `await response.json()` of a 2xx response
ExtractContent ==
    /\ call.fn = "localContent"
    /\ call.result = <<>>
    /\ call' = [call EXCEPT !.result = <<localContent(call.isOpenAICompatible, call.data)>>]
    /\ UNCHANGED machine

NextExtract == ExtractContent

SpecExtract == InitExtract /\ [][NextExtract]_vars

\* ------------------------------------------------- the prompt builder by itself

\* the actions of one request
MaxActions == 3

Button ==
    [tagName |-> "button", id |-> "submit", className |-> "", cssSelector |-> "#submit",
     xpath |-> "//button", textContent |-> <<"Submit">>, context |-> FALSE, role |-> ""]

Input ==
    [tagName |-> "input", id |-> "", className |-> "field", cssSelector |-> ".field",
     xpath |-> "//input", textContent |-> <<>>, context |-> TRUE, role |-> "textbox"]

\* an element whose text starts like an enumeration
Item ==
    [tagName |-> "li", id |-> "", className |-> "", cssSelector |-> "li",
     xpath |-> "//li", textContent |-> <<"1", ". ", "first">>, context |-> TRUE, role |-> ""]

ActionSet ==
    {[type |-> "click", element |-> Button, value |-> "", description |-> "Click on button"],
     [type |-> "type", element |-> Input, value |-> "hello", description |-> "Type into input"],
     [type |-> "hover", element |-> Item, value |-> "", description |-> "Hover over li"]}

PromptData ==
    [userPrompt : {"", "log in"}, pageContext : BOOLEAN,
     actions : UNION {[1..n -> ActionSet] : n \in 0..MaxActions}]

PlaywrightJs == [name |-> "Playwright", language |-> "JavaScript"]

InitPrompt ==
    /\ Quiescent
    /\ \E data \in PromptData, comments \in BOOLEAN :
           call = [fn |-> "buildPrompt", data |-> data,
                   options |-> [includeComments |-> comments, usePageObjectModel |-> FALSE],
                   prompt |-> <<>>]

\* buildPrompt(data, framework, settings)
BuildPrompt ==
    /\ call.fn = "buildPrompt"
    /\ call.prompt = <<>>
    /\ call' = [call EXCEPT !.prompt = buildPrompt(call.data, PlaywrightJs, call.options)]
    /\ UNCHANGED machine

NextPrompt == BuildPrompt

SpecPrompt == InitPrompt /\ [][NextPrompt]_vars

\* -------------------------------------------- the OpenRouter model list request

\* the entries of the catalog in one response
MaxModels == 2

CatalogEntries ==
    {[id |-> "openai/gpt-4o", name |-> "GPT-4o", context_length |-> 128000,
      pricing |-> [present |-> TRUE, map |-> {<<"prompt", "0.000005">>}]],
     [id |-> "meta/llama-3", name |-> "", context_length |-> 0, pricing |-> NoPricing]}

Catalogs == UNION {[1..n -> CatalogEntries] : n \in 0..MaxModels}

ModelsBodies ==
    {JsonBody(TRUE, TRUE, data) : data \in Catalogs}
    \cup {JsonBody(FALSE, FALSE, <<>>), JsonBody(TRUE, FALSE, <<>>)}
    \cup {TextBody(<<"<!DOCTYPE", " html><html>...">>), TextBody(<<"<html>...">>),
          TextBody(<<"Unauthorized">>), TextBody(<<>>)}

ContentTypes == {<<"application/json", "; charset=utf-8">>, <<"text/html">>, <<>>}

ModelsOutcomes ==
    [status : {200, 401, 500}, contentType : ContentTypes, body : ModelsBodies, neterr : {FALSE}]
    \cup {[status |-> 0, contentType |-> <<>>, body |-> TextBody(<<>>), neterr |-> TRUE]}

InitModels ==
    /\ Quiescent
    /\ call = [fn |-> "fetchOpenRouterModels", pc |-> "idle", apiKey |-> "",
               outcome |-> <<>>, result |-> <<>>, responses |-> <<>>]

\* the listener on a fetchOpenRouterModels or getAllOpenRouterModels message:
\* up to `await fetch`
OnFetchOpenRouterModels(apiKey) ==
    /\ call.fn = "fetchOpenRouterModels"
    /\ call.pc = "idle"
    /\ call' = [call EXCEPT !.pc = "fetch", !.apiKey = apiKey]
    /\ UNCHANGED machine

\* fetch has settled: the rest of fetchOpenRouterModels, and the listener's
\* sendResponse
ModelsFetchSettles(o) ==
    /\ call.fn = "fetchOpenRouterModels"
    /\ call.pc = "fetch"
    /\ LET result == fetchOpenRouterModels(o)
       IN  call' = [call EXCEPT
               !.pc = "done", !.outcome = <<o>>, !.result = <<result>>,
               !.responses = Append(@, IF result.ok
                                        THEN [success |-> TRUE, models |-> result.value, error |-> <<>>]
                                        ELSE [success |-> FALSE, models |-> <<>>, error |-> result.value])]
    /\ UNCHANGED machine

NextModels ==
    \/ \E apiKey \in {"", "sk-or"} : OnFetchOpenRouterModels(apiKey)
    \/ \E o \in ModelsOutcomes : ModelsFetchSettles(o)

SpecModels == InitModels /\ [][NextModels]_vars

\* ------------------------------------------ the settings tab's connection test

\* AI_PROVIDERS.find(p => p.id === id)?.type
providerType(id) ==
    IF id \in HostedChat THEN "cloud"
    ELSE IF id = "local" THEN "local"
    ELSE IF id = "openrouter" THEN "openrouter"
    ELSE "undefined"

ModelsUrl == <<"https://openrouter.ai", "/api", V1, "/models">>

\* what testConnection does before its await: it throws, it returns with the
\* status set to connected (a cloud provider with a key), or it issues a GET
\* request
testConnectionPlan(s) ==
    LET id == s.selectedAIProvider
        type == providerType(id)
    IN  IF type = "local"
        THEN Fetch((IF s.localSetup.present /\ s.localSetup.endpoint # <<>>
                    THEN s.localSetup.endpoint ELSE <<Host>>) \o <<"/api/tags">>,
                   "", "", "", <<>>)
        ELSE IF type = "openrouter"
        THEN (IF ~s.openRouterConfig.present \/ s.openRouterConfig.apiKey = ""
              THEN Throw("OpenRouter API key is required")
              ELSE Fetch(ModelsUrl, s.openRouterConfig.apiKey, "", "", <<>>))
        ELSE IF id \notin ProviderIds \/ s.apiKeys[id] = ""
        THEN Throw("API key is required")
        ELSE [Throw("") EXCEPT !.kind = "return"]

\* the connection status testConnection sets for a response
connectionResult(type, o) ==
    IF o.neterr THEN [isConnected |-> FALSE, error |-> ErrFetch]
    ELSE IF ok(o)
    THEN (IF type = "openrouter" /\ o.body # "content"
          THEN [isConnected |-> FALSE,
                error |-> "Invalid response from OpenRouter API - check your API key"]
          ELSE [isConnected |-> TRUE, error |-> ""])
    ELSE [isConnected |-> FALSE,
          error |-> IF o.status = 401 THEN "Invalid API key - please check your credentials"
                    ELSE IF o.status = 403 THEN "API key does not have required permissions"
                    ELSE IF o.status = 429 THEN "Rate limit exceeded - please try again later"
                    ELSE IF o.status >= 500 THEN "Server error - please try again later"
                    ELSE "HTTP error"]

InitConnection ==
    /\ settings \in SettingsSet
    /\ currentAPICallLogs = <<>>
    /\ frame = [r \in Requests |-> IdleFrame]
    /\ http = [r \in Requests |-> <<>>]
    /\ returned = [r \in Requests |-> <<>>]
    /\ responses = [r \in Requests |-> <<>>]
    /\ popup = [r \in Requests |-> <<>>]
    /\ accessOrder = <<>>
    /\ call = [fn |-> "testConnection", pc |-> "idle", requests |-> <<>>,
               connectionStatus |-> <<>>]

\* the Test Connection button of the settings tab: testConnection up to its
\* `await fetch`
TestConnection ==
    /\ call.fn = "testConnection"
    /\ call.pc = "idle"
    /\ LET plan == testConnectionPlan(settings)
       IN  call' = IF plan.kind = "fetch"
                   THEN [call EXCEPT !.pc = "fetch",
                                     !.requests = Append(@, [issuer |-> "sidepanel",
                                                             url |-> plan.url,
                                                             auth |-> plan.auth])]
                   ELSE [call EXCEPT !.pc = "done",
                                     !.connectionStatus =
                                         <<[isConnected |-> plan.kind = "return", error |-> plan.msg]>>]
    /\ UNCHANGED machine

\* testConnection after `await fetch`
ConnectionSettles(o) ==
    /\ call.fn = "testConnection"
    /\ call.pc = "fetch"
    /\ call' = [call EXCEPT !.pc = "done",
                            !.connectionStatus =
                                <<connectionResult(providerType(settings.selectedAIProvider), o)>>]
    /\ UNCHANGED machine

NextConnection ==
    \/ TestConnection
    \/ \E o \in AllOutcomes : ConnectionSettles(o)
    \/ \E r \in Requests, data \in DataSet : OnGenerateTestAlone(r, data)
    \/ \E r \in Requests : SettingsLoaded(r)
    \/ \E r \in Requests, o \in Outcomes : FetchSettles(r, o)
    \/ \E r \in Requests : BodyParsed(r)

SpecConnection == InitConnection /\ [][NextConnection]_vars

\* ------------------------------------------------------- the stored chat history

\* `if (chatHistory.length > 100)`: the number of messages that are kept
HistoryLimit == 100

\* the saveChatMessage requests of a run, and those whose storage call rejects
MaxSaves == 102
MaxFailures == 1

\* chatHistory.splice(0, 0): nothing is evicted
keepAll(chatHistory) == chatHistory

\* chatHistory.splice(chatHistory.length - 100): the newest are evicted
keepFirst(chatHistory) ==
    IF Len(chatHistory) > HistoryLimit THEN SubSeq(chatHistory, 1, HistoryLimit) ELSE chatHistory

\* if (chatHistory.length > 100) chatHistory.splice(0, chatHistory.length - 100)
keepLast(chatHistory) ==
    IF Len(chatHistory) > HistoryLimit
    THEN SubSeq(chatHistory, Len(chatHistory) - HistoryLimit + 1, Len(chatHistory))
    ELSE chatHistory

\* chrome.storage.local holds no chatHistory yet; no message has arrived
InitChat ==
    /\ Quiescent
    /\ call = [fn |-> "saveChatMessage", pc |-> "idle", stored |-> <<>>, message |-> 0,
               chatHistory |-> <<>>, arrived |-> 0, failures |-> 0, saved |-> <<>>,
               answers |-> <<>>]

\* the listener on a saveChatMessage message, once the request before it has
\* been answered: handleSaveChatMessage up to `await chrome.storage.local.get`
OnSaveChatMessage ==
    /\ call.fn = "saveChatMessage"
    /\ call.pc = "idle"
    /\ call.arrived < MaxSaves
    /\ call' = [call EXCEPT !.pc = "get", !.arrived = @ + 1, !.message = call.arrived + 1,
                            !.answers = <<>>]
    /\ UNCHANGED machine

\* the stored list has arrived (`result.chatHistory || []`): push, splice, up
\* to `await chrome.storage.local.set`
ChatHistoryRead ==
    /\ call.fn = "saveChatMessage"
    /\ call.pc = "get"
    /\ call' = [call EXCEPT !.pc = "set",
                            !.chatHistory = keepLast(Append(call.stored, call.message))]
    /\ UNCHANGED machine

\* the list has been written: sendResponse({ success: true })
ChatHistoryWritten ==
    /\ call.fn = "saveChatMessage"
    /\ call.pc = "set"
    /\ call' = [call EXCEPT !.pc = "idle", !.stored = call.chatHistory, !.chatHistory = <<>>,
                            !.saved = Append(@, call.message),
                            !.answers = Append(@, [success |-> TRUE, error |-> ""])]
    /\ UNCHANGED machine

\* chrome.storage.local.get or .set rejects: the catch answers with the error
ChatStorageRejects ==
    /\ call.fn = "saveChatMessage"
    /\ call.pc \in {"get", "set"}
    /\ call.failures < MaxFailures
    /\ call' = [call EXCEPT !.pc = "idle", !.chatHistory = <<>>, !.failures = @ + 1,
                            !.answers = Append(@, [success |-> FALSE, error |-> "storage error"])]
    /\ UNCHANGED machine

NextChat ==
    \/ OnSaveChatMessage
    \/ ChatHistoryRead
    \/ ChatHistoryWritten
    \/ ChatStorageRejects

SpecChat == InitChat /\ [][NextChat]_vars

\* ------------------------------------ the inspector of a page and the side panel

\* the elements of the page, and the user's actions in one run
MaxElements == 1
MaxEvents == 7

PageElements == 1..MaxElements

AlertSelectFirst == "Please select elements first"
AlertDescribe == "Please describe your test scenario"
ErrNoTab == "No active tab found"
ErrInject == "Failed to initialize on this page"
ErrTimedOut == "Test generation timed out. Please try again."

\* the state of the SidePanel component when it mounts
ClosedPanel ==
    [open |-> FALSE, selectedElements |-> 0, isLoading |-> FALSE, isGenerating |-> FALSE,
     generationError |-> "", listening |-> FALSE, pc |-> "idle", closure |-> FALSE]

\* handleClick: an element that is selected is removed, another one is added
toggle(selected, e) ==
    IF \E i \in 1..Len(selected) : selected[i] = e
    THEN SelectSeq(selected, LAMBDA x : x # e)
    ELSE Append(selected, e)

\* the content script's generateTest(settings, testScenario) up to its first
\* await: an alert, or the generateTest message to the background
contentGenerateTest(selected, testScenario) ==
    IF Len(selected) = 0 THEN [alert |-> AlertSelectFirst, sends |-> FALSE]
    ELSE IF trim(testScenario) = <<>> THEN [alert |-> AlertDescribe, sends |-> FALSE]
    ELSE [alert |-> "", sends |-> TRUE]

\* the content script has just been injected; the side panel is closed
InitPage ==
    /\ Quiescent
    /\ call = [fn |-> "page", isActive |-> FALSE, selectedElements |-> <<>>, cs |-> "idle",
               entered |-> <<>>, sent |-> <<>>, alert |-> "", panel |-> ClosedPanel,
               timers |-> <<>>, inbox |-> <<>>, events |-> 0]

UserActs == call.fn = "page" /\ call.events < MaxEvents

\* the side panel is opened: the component mounts and checkSelectedElements
\* asks the content script for the number of selected elements
PanelOpens ==
    /\ UserActs
    /\ ~call.panel.open
    /\ call' = [call EXCEPT !.events = @ + 1,
                            !.panel = [ClosedPanel EXCEPT !.open = TRUE,
                                           !.selectedElements = Len(call.selectedElements)]]
    /\ UNCHANGED machine

\* the Inspect button: the content script starts inspecting and the side
\* panel closes its window
StartInspecting ==
    /\ UserActs
    /\ call.panel.open /\ call.panel.pc = "idle"
    /\ call' = [call EXCEPT !.events = @ + 1, !.isActive = TRUE, !.panel = ClosedPanel]
    /\ UNCHANGED machine

\* handleClick on an element of the page
HandleClick(e) ==
    /\ UserActs
    /\ call.isActive
    /\ call' = [call EXCEPT !.events = @ + 1,
                            !.selectedElements = toggle(call.selectedElements, e)]
    /\ UNCHANGED machine

\* handleKeyDown: Escape, Enter, Delete or Backspace
HandleKeyDown(key) ==
    /\ UserActs
    /\ call.isActive
    /\ CASE key = "Escape" ->
              call' = [call EXCEPT !.events = @ + 1, !.isActive = FALSE]
         [] key = "Enter" ->
              IF Len(call.selectedElements) > 0 /\ call.cs = "idle"
              THEN call' = [call EXCEPT !.events = @ + 1, !.isActive = FALSE,
                                        !.cs = "getSettings",
                                        !.entered = call.selectedElements]
              ELSE call' = [call EXCEPT !.events = @ + 1]
         [] key = "Delete" ->
              call' = [call EXCEPT !.events = @ + 1, !.selectedElements = <<>>]
    /\ UNCHANGED machine

\* generateTestFromSelection after the background has answered getSettings:
\* generateTest(response.settings) is called without a test scenario
GetSettingsAnswered(success) ==
    /\ call.fn = "page"
    /\ call.cs = "getSettings"
    /\ LET step == contentGenerateTest(call.selectedElements, <<>>)
       IN  call' = IF ~success THEN [call EXCEPT !.cs = "idle"]
                   ELSE IF step.sends
                   THEN [call EXCEPT !.cs = "background",
                                     !.sent = Append(@, call.selectedElements)]
                   ELSE [call EXCEPT !.cs = "idle", !.alert = step.alert]
    /\ UNCHANGED machine

\* the Generate button of the side panel, enabled with selected elements, a
\* scenario and no generation under way: SidePanel.generateTest up to
\* `await chrome.tabs.query`; the function closes over the rendered isGenerating
GenerateClick ==
    /\ UserActs
    /\ call.panel.open /\ call.panel.pc = "idle"
    /\ call.panel.selectedElements > 0
    /\ ~call.panel.isLoading /\ ~call.panel.isGenerating
    /\ call' = [call EXCEPT !.events = @ + 1,
                            !.panel = [@ EXCEPT !.closure = call.panel.isGenerating,
                                                !.isLoading = TRUE, !.isGenerating = TRUE,
                                                !.generationError = "", !.pc = "tabs"]]
    /\ UNCHANGED machine

\* after `await chrome.tabs.query`: without a tab the function returns
TabsAnswered(hasTab) ==
    /\ call.fn = "page"
    /\ call.panel.pc = "tabs"
    /\ call' = IF hasTab
               THEN [call EXCEPT !.panel.pc = "ping"]
               ELSE [call EXCEPT !.panel.pc = "idle", !.panel.isLoading = FALSE,
                                 !.panel.generationError = ErrNoTab]
    /\ UNCHANGED machine

\* after the ping: the content script answers, or it is not there (the page
\* was loaded again) and is injected, or the injection fails
PingAnswered(result) ==
    /\ call.fn = "page"
    /\ call.panel.pc = "ping"
    /\ result = "injected" => call.cs = "idle"
    /\ call' = CASE result = "ok" -> [call EXCEPT !.panel.pc = "content"]
                 [] result = "injected" ->
                        [call EXCEPT !.panel.pc = "content", !.isActive = FALSE,
                                     !.selectedElements = <<>>]
                 [] result = "failed" ->
                        [call EXCEPT !.panel.pc = "idle", !.panel.isLoading = FALSE,
                                     !.panel.generationError = ErrInject]
    /\ UNCHANGED machine

\* the content script's listener on the side panel's generateTest message:
\* generateTest(settings, testScenario) runs up to its first await and the
\* listener answers { success: true }
ContentOnGenerateTest ==
    /\ call.fn = "page"
    /\ call.panel.pc = "content"
    /\ call.cs = "idle"
    /\ LET step == contentGenerateTest(call.selectedElements, <<"c">>)
       IN  call' = IF step.sends
                   THEN [call EXCEPT !.panel.pc = "accepted", !.cs = "background",
                                     !.sent = Append(@, call.selectedElements)]
                   ELSE [call EXCEPT !.panel.pc = "accepted", !.alert = step.alert]
    /\ UNCHANGED machine

\* SidePanel.generateTest after the content script's answer: the listener
\* for the result is added and the 30 second timer is set
PanelAccepted ==
    /\ call.fn = "page"
    /\ call.panel.pc = "accepted"
    /\ call' = [call EXCEPT !.panel.pc = "idle", !.panel.isLoading = FALSE,
                            !.panel.listening = TRUE,
                            !.timers = Append(@, call.panel.closure)]
    /\ UNCHANGED machine

\* the background answers the content script's generateTest message (it has
\* sent its own message to the side panel before), or the content script's 30
\* seconds run out; the content script sends its message to the side panel
BackgroundAnswers(outcome) ==
    /\ call.fn = "page"
    /\ call.cs = "background"
    /\ call' = CASE outcome = "success" ->
                        [call EXCEPT !.cs = "idle", !.isActive = FALSE,
                                     !.selectedElements = <<>>,
                                     !.inbox = @ \o <<"testGenerated", "testGenerated">>]
                 [] outcome = "error" ->
                        [call EXCEPT !.cs = "idle",
                                     !.inbox = @ \o <<"testGenerationError", "testGenerationError">>]
                 [] outcome = "timeout" ->
                        [call EXCEPT !.cs = "idle",
                                     !.inbox = Append(@, "testGenerationError")]
    /\ UNCHANGED machine

\* a message reaches the side panel, after the content script's answer that
\* was sent before it: handleTestGenerated, when it is added
Deliver ==
    /\ call.fn = "page"
    /\ call.inbox # <<>>
    /\ call.panel.pc # "accepted"
    /\ call' = IF call.panel.open /\ call.panel.listening
               THEN [call EXCEPT !.inbox = Tail(@), !.panel.isGenerating = FALSE,
                                 !.panel.listening = FALSE,
                                 !.panel.generationError =
                                     IF Head(call.inbox) = "testGenerationError"
                                     THEN "Failed to generate test" ELSE @]
               ELSE [call EXCEPT !.inbox = Tail(@)]
    /\ UNCHANGED machine

\* the 30 second timer: `if (isGenerating)` reads the value the function
\* closed over
TimerFires ==
    /\ call.fn = "page"
    /\ call.timers # <<>>
    /\ call' = IF Head(call.timers) /\ call.panel.open
               THEN [call EXCEPT !.timers = Tail(@), !.panel.isGenerating = FALSE,
                                 !.panel.listening = FALSE,
                                 !.panel.generationError = ErrTimedOut]
               ELSE [call EXCEPT !.timers = Tail(@)]
    /\ UNCHANGED machine

\* what happens without the user: answers, messages and timers
PageProgress ==
    \/ \E success \in BOOLEAN : GetSettingsAnswered(success)
    \/ \E hasTab \in BOOLEAN : TabsAnswered(hasTab)
    \/ \E result \in {"ok", "injected", "failed"} : PingAnswered(result)
    \/ ContentOnGenerateTest
    \/ PanelAccepted
    \/ \E outcome \in {"success", "error", "timeout"} : BackgroundAnswers(outcome)
    \/ Deliver
    \/ TimerFires

NextPage ==
    \/ PanelOpens
    \/ StartInspecting
    \/ \E e \in PageElements : HandleClick(e)
    \/ \E key \in {"Escape", "Enter", "Delete"} : HandleKeyDown(key)
    \/ GenerateClick
    \/ PageProgress

SpecPage == InitPage /\ [][NextPage]_vars

\* every answer, message and timer that is due arrives
SpecPageFair == SpecPage /\ WF_vars(PageProgress)

\* ------------------------------------------------- the onMessage listener as a whole

\* the actions of the listener's switch, and one it does not know
ListenerActions ==
    {"generateTest", "saveTest", "getSettings", "updateSettings", "getChatHistory",
     "saveChatMessage", "fetchOpenRouterModels", "getAllOpenRouterModels"}

ErrUnknownAction == "Unknown action"

\* the awaits of each handler, in order
awaits(action) ==
    CASE action = "saveTest" -> <<"storage.get", "storage.set", "tabs">>
      [] action = "getSettings" -> <<"storage.get">>
      [] action = "updateSettings" -> <<"storage.set">>
      [] action = "getChatHistory" -> <<"storage.get">>
      [] action = "saveChatMessage" -> <<"storage.get", "storage.set">>
      [] action \in {"fetchOpenRouterModels", "getAllOpenRouterModels"} -> <<"fetch">>
      [] OTHER -> <<>>

\* a catch block that only logs
catchSilent(answers, msg) == answers

\* the catch of a handler: sendResponse({ error: ... })
catchResponds(answers, msg) == Append(answers, errorResponse(msg))

\* the settings the listener is looked at with
ListenerSettings ==
    {DEFAULT_SETTINGS, [Configured EXCEPT !.apiKeys["openai"] = "sk-key"]}

InitListener ==
    /\ settings \in ListenerSettings
    /\ currentAPICallLogs = <<>>
    /\ frame = [r \in Requests |-> IdleFrame]
    /\ http = [r \in Requests |-> <<>>]
    /\ returned = [r \in Requests |-> <<>>]
    /\ responses = [r \in Requests |-> <<>>]
    /\ popup = [r \in Requests |-> <<>>]
    /\ accessOrder = <<>>
    /\ call = [fn |-> "listener", action |-> "", at |-> 0, answers |-> <<>>]

\* no handler of the listener is running
ListenerIdle ==
    /\ call.fn = "listener"
    /\ call.at = 0
    /\ InFlight = {}

\* the listener on a message other than generateTest: the handler up to its
\* first await; the default case answers at once
OnMessage(action) ==
    /\ ListenerIdle
    /\ call' = IF awaits(action) = <<>>
               THEN [call EXCEPT !.action = action,
                                 !.answers = <<errorResponse(ErrUnknownAction)>>]
               ELSE [call EXCEPT !.action = action, !.at = 1, !.answers = <<>>]
    /\ UNCHANGED machine

\* an await of the handler resolves or rejects.  A rejection ends the handler
\* in its catch, except for the notification of the DevTools panel in
\* handleSaveTest, whose own catch goes on to the answer; updateSettings
\* replaces the stored settings
AwaitSettles(resolved, data) ==
    /\ call.fn = "listener"
    /\ call.at > 0
    /\ LET steps == awaits(call.action)
           step == steps[call.at]
       IN  /\ step # "fetch"
           /\ call' = IF ~resolved /\ step # "tabs"
                      THEN [call EXCEPT !.at = 0,
                                        !.answers = catchResponds(@, "storage error")]
                      ELSE IF call.at = Len(steps)
                      THEN [call EXCEPT !.at = 0, !.answers = Append(@, successResponse(<<>>))]
                      ELSE [call EXCEPT !.at = @ + 1]
           /\ settings' = IF resolved /\ call.action = "updateSettings" THEN data ELSE settings
    /\ UNCHANGED <<currentAPICallLogs, frame, http, returned, responses, popup, accessOrder>>

\* the fetch of fetchOpenRouterModels settles: the list, or the catch
ModelsAnswered(o) ==
    /\ call.fn = "listener"
    /\ call.at > 0
    /\ awaits(call.action)[call.at] = "fetch"
    /\ call' = IF fetchOpenRouterModels(o).ok
               THEN [call EXCEPT !.at = 0, !.answers = Append(@, successResponse(<<>>))]
               ELSE [call EXCEPT !.at = 0,
                                 !.answers = catchResponds(@, fetchOpenRouterModels(o).value)]
    /\ UNCHANGED machine

\* the listener on a generateTest message
OnGenerateTestMessage(r, data) ==
    /\ ListenerIdle
    /\ OnGenerateTest(r, data)

NextListener ==
    \/ \E action \in (ListenerActions \ {"generateTest"}) \cup {"ping"} : OnMessage(action)
    \/ \E resolved \in BOOLEAN, data \in ListenerSettings : AwaitSettles(resolved, data)
    \/ \E o \in ModelsOutcomes : ModelsAnswered(o)
    \/ \E r \in Requests, data \in DataSet : OnGenerateTestMessage(r, data)
    \/ \E r \in Requests : SettingsLoaded(r)
    \/ \E r \in Requests, o \in Outcomes : FetchSettles(r, o)
    \/ \E r \in Requests : BodyParsed(r)

SpecListener == InitListener /\ [][NextListener]_vars

\* ------------------------------------------------------------- the saved tests

\* the saveTest requests of a run
MaxSavers == 3

Savers == 1..MaxSavers

\* chrome.storage.local holds no savedTests yet; no request has arrived
InitSave ==
    /\ Quiescent
    /\ call = [fn |-> "saveTest", stored |-> <<>>,
               pc |-> [s \in Savers |-> "idle"],
               savedTests |-> [s \in Savers |-> <<>>],
               answers |-> [s \in Savers |-> <<>>]]

\* the listener on a saveTest message: handleSaveTest up to
\* `await chrome.storage.local.get`
OnSaveTest(s) ==
    /\ call.fn = "saveTest"
    /\ call.pc[s] = "idle"
    /\ \A t \in Savers : t < s => call.pc[t] # "idle"
    /\ call' = [call EXCEPT !.pc[s] = "get"]
    /\ UNCHANGED machine

\* the stored list has arrived (`result.savedTests || []`): the test is
\* pushed, up to `await chrome.storage.local.set`
SavedTestsRead(s) ==
    /\ call.fn = "saveTest"
    /\ call.pc[s] = "get"
    /\ call' = [call EXCEPT !.pc[s] = "set", !.savedTests[s] = Append(call.stored, s)]
    /\ UNCHANGED machine

\* the list has been written; up to the notification of the DevTools panel
SavedTestsWritten(s) ==
    /\ call.fn = "saveTest"
    /\ call.pc[s] = "set"
    /\ call' = [call EXCEPT !.pc[s] = "notify", !.stored = call.savedTests[s],
                            !.savedTests[s] = <<>>]
    /\ UNCHANGED machine

\* the tabs have been notified, or that failed: sendResponse({ success: true })
DevToolsNotified(s) ==
    /\ call.fn = "saveTest"
    /\ call.pc[s] = "notify"
    /\ call' = [call EXCEPT !.pc[s] = "done",
                            !.answers[s] = Append(@, successResponse(<<>>))]
    /\ UNCHANGED machine

\* chrome.storage.local.get or .set rejects: the catch answers with the error
SaveStorageRejects(s) ==
    /\ call.fn = "saveTest"
    /\ call.pc[s] \in {"get", "set"}
    /\ call' = [call EXCEPT !.pc[s] = "done", !.savedTests[s] = <<>>,
                            !.answers[s] = Append(@, errorResponse("storage error"))]
    /\ UNCHANGED machine

NextSave ==
    \/ \E s \in Savers : OnSaveTest(s)
    \/ \E s \in Savers : SavedTestsRead(s)
    \/ \E s \in Savers : SavedTestsWritten(s)
    \/ \E s \in Savers : DevToolsNotified(s)
    \/ \E s \in Savers : SaveStorageRejects(s)

SpecSave == InitSave /\ [][NextSave]_vars

\* ------------------------------------------------------------- the test runner

\* the tests of a suite, and the runs of one session
MaxTests == 4
MaxRuns == 2

ErrAborted == "Test execution was aborted"
ErrAssertion == "Test assertion failed: Element not found"

\* the TestRunResult of runSingleTest
testResult(id, status, error) == [id |-> id, status |-> status, error |-> error]

\* a new PlaywrightTestRunner: no test is running
InitRunner ==
    /\ Quiescent
    /\ call = [fn |-> "runner", runs |-> 0, total |-> 0, test |-> 0, aborted |-> FALSE,
               runningTests |-> {}, tests |-> <<>>, status |-> "idle", stopped |-> FALSE]

\* runSingleTest up to `await this.executeTest(...)`: a new AbortController
\* is registered under the test's id
runSingleTest(c, n) ==
    [c EXCEPT !.test = n, !.aborted = FALSE, !.runningTests = @ \cup {<<c.runs, n>>}]

\* the for loop of runMultipleTests after a result has been pushed: the next
\* test is started, or the suite ends
nextOfSuite(c) ==
    IF c.test < c.total
    THEN runSingleTest(c, c.test + 1)
    ELSE [c EXCEPT !.test = 0,
                   !.status = IF \E i \in 1..Len(c.tests) : c.tests[i].status = "failed"
                              THEN "failed" ELSE "completed"]

\* handleRunTests, when no run is executing: runMultipleTests up to the
\* first `await this.runSingleTest(test)`
RunMultipleTests(total) ==
    /\ call.fn = "runner"
    /\ call.status # "running"
    /\ call.runs < MaxRuns
    /\ call' = nextOfSuite([call EXCEPT !.runs = @ + 1, !.total = total, !.test = 0,
                                        !.tests = <<>>, !.status = "running",
                                        !.stopped = FALSE])
    /\ UNCHANGED machine

\* the timer of executeTest fires for a test that was not aborted: the test
\* passes or fails, its id is removed, its result is pushed and the loop goes on
TestSettles(passes) ==
    /\ call.fn = "runner"
    /\ call.status = "running" /\ call.test > 0 /\ ~call.aborted
    /\ LET id == <<call.runs, call.test>>
           result == IF passes THEN testResult(id, "passed", "")
                     ELSE testResult(id, "failed", ErrAssertion)
       IN  call' = nextOfSuite([call EXCEPT !.runningTests = @ \ {id},
                                            !.tests = Append(@, result)])
    /\ UNCHANGED machine

\* handleStopTests: stopAllTests aborts every registered controller, which
\* rejects the promise of executeTest, and clears the map
StopAllTests ==
    /\ call.fn = "runner"
    /\ call.status = "running"
    /\ ~call.stopped
    /\ call' = [call EXCEPT !.aborted = call.runningTests # {}, !.runningTests = {},
                            !.stopped = TRUE]
    /\ UNCHANGED machine

\* runSingleTest after the rejection by the abort: the catch, the finally,
\* and the loop of runMultipleTests goes on
AbortCaught ==
    /\ call.fn = "runner"
    /\ call.status = "running" /\ call.test > 0 /\ call.aborted
    /\ LET id == <<call.runs, call.test>>
       IN  call' = nextOfSuite([call EXCEPT !.runningTests = @ \ {id},
                                            !.tests = Append(@, testResult(id, "failed", ErrAborted))])
    /\ UNCHANGED machine

NextRunner ==
    \/ \E total \in 0..MaxTests : RunMultipleTests(total)
    \/ \E passes \in BOOLEAN : TestSettles(passes)
    \/ StopAllTests
    \/ AbortCaught

SpecRunner == InitRunner /\ [][NextRunner]_vars

\* ===================================================================== claims

\* the request has passed handleGenerateTest's checks or was dispatched directly
Started(r) == frame[r].pc \in {"fetch", "json", "done"}

LocalV1(r) == frame[r].provider = "local" /\ includesV1(frame[r].endpoint)

LocalNoV1(r) ==
    frame[r].provider = "local" /\ frame[r].endpoint # <<>> /\ ~includesV1(frame[r].endpoint)

\* C1: a local dispatch whose base URL contains /v1 makes at most two HTTP
\* attempts; once the first (chat-completions) attempt has returned 404 there
\* is exactly one more, to the legacy completions path under the same base,
\* whatever that second attempt returns.
C1_LocalV1OneLegacyRetry ==
    \A r \in Requests :
        LocalV1(r) =>
            /\ Len(http[r]) <= 2
            /\ (Len(http[r]) >= 1 /\ http[r][1].state = "responded" /\ http[r][1].status = 404)
                 => /\ Len(http[r]) = 2
                    /\ last(http[r][1].url) = "/chat/completions"
                    /\ last(http[r][2].url) = "/completions"
                    /\ butLast(http[r][2].url) = butLast(http[r][1].url)
                    /\ SubSeq(http[r][2].url, 1, Len(frame[r].endpoint)) = frame[r].endpoint

\* the fallback ran and returned 404 again; the dispatch is over
C1_Witness ==
    \E r \in Requests :
        /\ LocalV1(r) /\ frame[r].pc = "done"
        /\ Len(http[r]) = 2
        /\ http[r][1].status = 404 /\ http[r][2].state = "responded" /\ http[r][2].status = 404

\* C2: a local dispatch whose base URL has no /v1 issues no chat-completions
\* and no legacy completions request: its only HTTP attempt is the one
\* /api/generate request, also when that returns 404.
C2_LocalNoV1OnlyGenerate ==
    \A r \in Requests :
        LocalNoV1(r) =>
            /\ Len(http[r]) <= 1
            /\ \A i \in 1..Len(http[r]) :
                   /\ http[r][i].url = frame[r].endpoint \o <<"/api/generate">>
                   /\ last(http[r][i].url) \notin {"/chat/completions", "/completions"}

\* the generate request returned 404 and the dispatch ended without another
C2_Witness ==
    \E r \in Requests :
        /\ LocalNoV1(r) /\ frame[r].pc = "done"
        /\ Len(http[r]) = 1 /\ http[r][1].state = "responded" /\ http[r][1].status = 404

\* C3: a dispatch to a provider other than local makes at most one HTTP attempt
\* whatever it returns; a local dispatch makes a second attempt only after its
\* chat-completions attempt returned 404, never after another status or a
\* network error.
C3_NoOtherRetry ==
    \A r \in Requests :
        /\ frame[r].provider # "local" => Len(http[r]) <= 1
        /\ Len(http[r]) >= 2 =>
               /\ frame[r].provider = "local"
               /\ http[r][1].state = "responded" /\ http[r][1].status = 404
               /\ last(http[r][1].url) = "/chat/completions"

\* a hosted, OpenRouter or custom dispatch ended after one attempt that
\* returned an error status
C3_Witness ==
    \E r \in Requests :
        /\ frame[r].provider \in HostedChat \cup {"openrouter", "manual"}
        /\ frame[r].pc = "done"
        /\ Len(http[r]) = 1 /\ http[r][1].state = "responded"
        /\ http[r][1].status \in {404, 429, 500}

LocalFieldMissing ==
    /\ settings.selectedAIProvider = "local"
    /\ \/ ~settings.localSetup.present
       \/ settings.localSetup.endpoint = <<>>
       \/ settings.localSetup.model = ""

LocalEndpointMissing ==
    /\ settings.selectedAIProvider = "local"
    /\ (~settings.localSetup.present \/ settings.localSetup.endpoint = <<>>)

CustomFieldMissing ==
    /\ settings.selectedAIProvider = "manual"
    /\ \/ ~settings.customProviderConfig.present
       \/ settings.customProviderConfig.baseUrl = <<>>
       \/ settings.customProviderConfig.apiKey = ""
       \/ settings.customProviderConfig.model = ""

\* C5: with the local endpoint or model missing, or the custom base URL, key
\* or model missing, no HTTP attempt is ever made and the log stays empty; a
\* request that reaches the dispatch is answered with an error, which for
\* local names the endpoint when the endpoint is missing and the model when
\* only the model is.
C5_MissingConfigFailsBeforeHttp ==
    (LocalFieldMissing \/ CustomFieldMissing) =>
        /\ currentAPICallLogs = <<>>
        /\ \A r \in Requests :
               /\ http[r] = <<>>
               /\ frame[r].pc \in {"idle", "settings", "done"}
               /\ frame[r].pc = "done" =>
                      /\ Len(responses[r]) = 1
                      /\ responses[r][1].success =>
                             (returned[r] = <<>> /\ responses[r][1].test[1].code = "template code")
                      /\ (returned[r] # <<>>) => (~returned[r][1].ok /\ ~responses[r][1].success)
                      /\ (~responses[r][1].success /\ LocalEndpointMissing) =>
                             responses[r][1].error = ErrLocalEndpointHandler
                      /\ (~responses[r][1].success /\ LocalFieldMissing /\ ~LocalEndpointMissing) =>
                             responses[r][1].error = ErrLocalModel

\* a local dispatch with an endpoint and no model has failed
C5_Witness ==
    \E r \in Requests :
        /\ LocalFieldMissing /\ ~LocalEndpointMissing
        /\ frame[r].pc = "done" /\ returned[r] = <<Rejects(ErrLocalModel)>>
        /\ http[r] = <<>>

\* the log holds an entry of attempt n of request r
Logged(logs, r, n) == \E i \in 1..Len(logs) : logs[i].id = <<r, n>>

Settles(r, n) ==
    /\ frame[r].pc = "fetch" /\ n = Len(http[r])
    /\ http'[r][n].state # "inflight"

LogOf(logs, r) ==
    /\ Len(logs) = Len(http[r])
    /\ \A i \in 1..Len(logs) :
           /\ logs[i].id = <<r, i>>
           /\ logs[i].url = http[r][i].url
           /\ logs[i].status = http[r][i].status
           /\ (logs[i].error # "") = (http[r][i].state = "failed")

C8_LogScopedToRequest ==
    \A r \in Requests :
        /\ r \in InFlight =>
               \A n \in 1..Len(http[r]) :
                   http[r][n].state # "inflight" => Logged(currentAPICallLogs, r, n)
        /\ \A k \in 1..Len(responses[r]) :
               responses[r][k].success =>
                   \A i \in 1..Len(responses[r][k].test[1].apiCalls) :
                       responses[r][k].test[1].apiCalls[i].id[1] = r

\* C9 (as stated): the accesses of one request to the log (its reset, its
\* appends, its final read) are never interleaved with those of another.
C9_NoInterleavedAccess ==
    \A i, j, k \in 1..Len(accessOrder) :
        (i < j /\ j < k /\ accessOrder[i] = accessOrder[k]) => accessOrder[j] = accessOrder[i]

\* C10 (as stated): every dispatch that has ended, successful or failed, has
\* handed the caller exactly one artifact, and the artifact carries the entry
\* of every HTTP attempt the dispatch made.
C10_ArtifactForEveryDispatch ==
    \A r \in Requests :
        (frame[r].entry = "handler" /\ returned[r] # <<>>) =>
            /\ Len(responses[r]) = 1
            /\ Len(responses[r][1].test) = 1
            /\ \A n \in 1..Len(http[r]) : Logged(responses[r][1].test[1].apiCalls, r, n)

\* C10 (amended): every generateTest request is answered exactly once, when
\* it ends.  A successful one is handed one artifact, whose apiCalls are a
\* copy of the log as it is at that moment; a failed one is handed only an
\* error message: no artifact is created, and the entries of the attempts it
\* made stay in the log and are not delivered.
C10_ArtifactOnSuccessOnly ==
    [][\A r \in Requests :
          /\ Len(responses'[r]) = (IF frame'[r].pc = "done" /\ frame'[r].entry = "handler" THEN 1 ELSE 0)
          /\ responses'[r] # responses[r] =>
                 LET resp == responses'[r][1]
                 IN  /\ resp.success = (popup'[r] = <<"testGenerated">>)
                     /\ IF resp.success
                        THEN /\ resp.error = ""
                             /\ Len(resp.test) = 1
                             /\ resp.test[1].apiCalls = currentAPICallLogs'
                             /\ (returned'[r] # <<>>) =>
                                    (returned'[r][1].ok /\ resp.test[1].code = returned'[r][1].value)
                        ELSE /\ resp.test = <<>>
                             /\ resp.error # ""
                             /\ (returned'[r] # <<>>) =>
                                    (~returned'[r][1].ok /\ resp.error = returned'[r][1].value)]_vars

\* a dispatch failed after an HTTP attempt: the attempt is in the log and the
\* caller got the error message alone
C10_Witness ==
    \E r \in Requests :
        /\ frame[r].pc = "done" /\ Len(http[r]) = 1 /\ http[r][1].status = 500
        /\ Logged(currentAPICallLogs, r, 1)
        /\ Len(responses[r]) = 1 /\ ~responses[r][1].success
        /\ responses[r][1].test = <<>>

\* the dispatch of request r has ended after at least one HTTP attempt
Ended(r) == returned[r] # <<>> /\ http[r] # <<>>

\* the last HTTP attempt of request r came back with a 2xx status
Final2xx(r) ==
    /\ last(http[r]).state = "responded"
    /\ last(http[r]).status >= 200 /\ last(http[r]).status <= 299

\* C11 (as stated): a dispatch ends in Succeeded if and only if its final HTTP
\* response has a 2xx status and its body holds the provider's content field.
C11_SucceedsIffContentField ==
    \A r \in Requests :
        Ended(r) =>
            (returned[r][1].ok <=> (Final2xx(r) /\ last(http[r]).body \in {"content", "empty"}))

\* C11 (amended): a dispatch ends exactly once, and it ends in Succeeded if and
\* only if its final HTTP response has a 2xx status and a JSON body that holds
\* the provider's content field, which for the local provider must also be
\* non-empty; a non-2xx final status, a network error and a 2xx body without
\* the field end in Failed; a dispatch that made no HTTP attempt has failed.
C11_SucceedsIffUsableContent ==
    \A r \in Requests :
        /\ Len(returned[r]) <= 1
        /\ (returned[r] # <<>> /\ http[r] = <<>>) => ~returned[r][1].ok
        /\ Ended(r) =>
               /\ returned[r][1].ok <=>
                      /\ Final2xx(r)
                      /\ \/ last(http[r]).body = "content"
                         \/ last(http[r]).body = "empty" /\ frame[r].provider # "local"
               /\ (last(http[r]).state = "failed" \/ ~Final2xx(r)) => ~returned[r][1].ok
               /\ last(http[r]).body \in {"nofield", "nonjson"} => ~returned[r][1].ok

\* a local dispatch got a 2xx response whose content field is empty, and failed
C11_Witness ==
    \E r \in Requests :
        /\ Ended(r) /\ frame[r].provider = "local"
        /\ Final2xx(r) /\ last(http[r]).body = "empty"
        /\ returned[r] = <<Rejects(ErrLocalNoContent)>>

HostedStyle == HostedChat \cup {"openrouter"}

\* the messages of the script that mention a key or credentials
AuthenticationMessages ==
    {KeyNotConfigured(p) : p \in ProviderIds} \cup {ErrOpenRouterKey}

\* C12 (as stated): for a hosted-chat-style provider the status decides the
\* class of the error: after a 401 the dispatch fails with a message about the
\* key or credentials, whatever the body (the provider's own error message,
\* when the body carries one, is taken to be of the right class).
C12_StatusDecidesErrorClass ==
    \A r \in Requests :
        (Ended(r) /\ frame[r].provider \in HostedStyle
           /\ last(http[r]).state = "responded" /\ last(http[r]).status = 401) =>
            /\ ~returned[r][1].ok
            /\ \/ returned[r][1].value \in AuthenticationMessages
               \/ last(http[r]).body = "errmsg" /\ returned[r][1].value = ErrBodyMessage

\* C13: a local dispatch whose HTTP call throws, on the first attempt or on
\* the fallback attempt, ends there and fails with the "cannot connect to
\* local AI service" message, never with the raw "Failed to fetch"; the
\* handler answers the request with that message.
C13_LocalNetworkErrorTranslated ==
    \A r \in Requests :
        \A n \in 1..Len(http[r]) :
            (frame[r].provider = "local" /\ http[r][n].state = "failed") =>
                /\ n = Len(http[r])
                /\ frame[r].pc = "done"
                /\ returned[r] = <<Rejects(ErrLocalConnect)>>
                /\ returned[r][1].value # ErrFetch
                /\ frame[r].entry = "handler" =>
                       responses[r] = <<errorResponse(ErrLocalConnect)>>

\* the chat-completions attempt returned 404 and the fallback attempt threw
C13_Witness ==
    \E r \in Requests :
        /\ frame[r].provider = "local" /\ Len(http[r]) = 2
        /\ http[r][2].state = "failed"
        /\ returned[r] = <<Rejects(ErrLocalConnect)>>

\* C14 (as stated): cleanAIResponse is idempotent: cleaning what it returned
\* returns the same text.
C14_CleanIdempotent ==
    (call.fn = "cleanAIResponse" /\ Len(call.outputs) = 2) =>
        call.outputs[2] = call.outputs[1]

\* the text is inner content without a fence between an opening fence line
\* with a recognized language tag and a closing fence
Wrapped(text) ==
    /\ Len(text) >= 5
    /\ SubSeq(text, 1, 3) = <<Fence, Tag, NL>>
    /\ SubSeq(text, Len(text) - 1, Len(text)) = <<NL, Fence>>
    /\ \A i \in 4..(Len(text) - 2) : text[i] # Fence

inner(text) == SubSeq(text, 4, Len(text) - 2)

\* C15 (as stated): for inner content wrapped in one fenced block with a
\* recognized language tag, cleanAIResponse returns the inner content without
\* leading and trailing white space, and no fence.
C15_UnwrapsTaggedBlock ==
    (call.fn = "cleanAIResponse" /\ Len(call.outputs) >= 1 /\ Wrapped(call.input)) =>
        /\ call.outputs[1] = trim(inner(call.input))
        /\ \A i \in 1..Len(call.outputs[1]) : call.outputs[1][i] # Fence

\* the order in which the fields are documented to be tried
FieldOrder(isOpenAICompatible) ==
    IF isOpenAICompatible
    THEN <<"choices[0].message.content", "choices[0].text", "content", "text">>
    ELSE <<"response", "text", "content">>

Usable(field) == field.present /\ field.value # <<>>

\* C16: the local content extraction returns the first field of the
\* documented order that is present and not empty (for an OpenAI-compatible
\* endpoint choices[0].message.content, choices[0].text, content, text;
\* otherwise response, text, content); a later field is used only when every
\* earlier one is absent or empty, and with no usable field the call fails.
C16_FirstUsableField ==
    (call.fn = "localContent" /\ call.result # <<>>) =>
        LET order == FieldOrder(call.isOpenAICompatible)
        IN  /\ \A k \in 1..Len(order) :
                   (/\ Usable(call.data[order[k]])
                    /\ \A j \in 1..(k - 1) : ~Usable(call.data[order[j]]))
                       => call.result[1] = Returns(call.data[order[k]].value)
            /\ (\A k \in 1..Len(order) : ~Usable(call.data[order[k]]))
                   => call.result[1] = Rejects(ErrLocalNoContent)

\* the first two fields of an OpenAI-compatible body are empty or absent and
\* both later ones hold text: the top-level content is returned
C16_Witness ==
    /\ call.fn = "localContent" /\ call.isOpenAICompatible
    /\ call.data["choices[0].message.content"] = Str(<<>>)
    /\ call.data["choices[0].text"] = Undefined
    /\ Usable(call.data["content"]) /\ Usable(call.data["text"])
    /\ call.result = <<Returns(FieldText("content"))>>

DigitSet == {Digits[i] : i \in 1..Len(Digits)}

\* the line begins with a number followed by ". ": the number of digits, or 0
RECURSIVE numberLength(_, _)
numberLength(line, k) ==
    IF k > Len(line) THEN 0
    ELSE IF line[k] \in DigitSet THEN numberLength(line, k + 1)
    ELSE IF line[k] = ". " /\ k > 1 THEN k - 1
    ELSE 0

\* the positions of the lines of the prompt that begin an enumerated block
RECURSIVE blockStarts(_, _)
blockStarts(prompt, k) ==
    IF k > Len(prompt) THEN <<>>
    ELSE (IF numberLength(prompt[k], 1) > 0 THEN <<k>> ELSE <<>>) \o blockStarts(prompt, k + 1)

C18_ModelsOnlyFromJsonCatalog ==
    (call.fn = "fetchOpenRouterModels" /\ call.pc = "done") =>
        LET o == call.outcome[1]
            result == call.result[1]
            catalog == /\ ~o.neterr /\ o.status >= 200 /\ o.status <= 299
                       /\ includes(o.contentType, "application/json")
                       /\ o.body.json /\ o.body.hasData /\ o.body.isList
            html == includes(o.body.text, "<!DOCTYPE")
        IN  /\ result.ok <=> catalog
            /\ result.ok =>
                   /\ Len(result.value) = Len(o.body.data)
                   /\ \A i \in 1..Len(result.value) :
                          LET entry == o.body.data[i]
                              model == result.value[i]
                          IN  /\ model.id = entry.id
                              /\ model.name = (IF entry.name = "" THEN entry.id ELSE entry.name)
                              /\ model.context_length = entry.context_length
                              /\ model.pricing = (IF entry.pricing.present
                                                 THEN entry.pricing.map ELSE {})
                              /\ model.name # ""
            /\ (o.neterr \/ ~ok(o) \/ ~includes(o.contentType, "application/json")) => ~result.ok
            /\ (~result.ok /\ includes(result.value, ErrInvalidKey)) <=> (~o.neterr /\ ~ok(o) /\ html)
            /\ Len(call.responses) = 1
            /\ call.responses[1].success = result.ok

\* a 401 with an HTML page has been answered with the invalid key message
C18_Witness ==
    /\ call.fn = "fetchOpenRouterModels" /\ call.pc = "done"
    /\ call.outcome[1].status = 401
    /\ includes(call.outcome[1].body.text, "<!DOCTYPE")
    /\ ~call.result[1].ok
    /\ includes(call.responses[1].error, ErrInvalidKey)

\* the hosts of the AI providers: the hosted ones, OpenRouter, the local
\* service and the custom base URL
ProviderHosts ==
    {HostedUrl(p)[1] : p \in HostedChat}
    \cup {OpenRouterUrl[1], Host, "https://llm.example.com"}

\* C19 (as stated): every HTTP request to an endpoint of an AI provider is
\* issued by the background script; the side panel issues none.
C19_OnlyBackgroundCallsProviders ==
    call.fn = "testConnection" =>
        \A i \in 1..Len(call.requests) :
            (call.requests[i].url[1] \in ProviderHosts) => call.requests[i].issuer = "background"

\* C20: an empty content string is a failure for the local provider and for
\* no other: a local dispatch whose final 2xx response holds only empty
\* content fails with the "No content received" error, and a dispatch to any
\* other provider whose 2xx response holds an empty content string succeeds
\* with the empty text, which the handler hands out as the code of the test;
\* no other provider ever fails with the "No content received" error.
C20_EmptyContentFailsOnlyLocal ==
    \A r \in Requests :
        /\ (Ended(r) /\ Final2xx(r) /\ last(http[r]).body = "empty") =>
               IF frame[r].provider = "local"
               THEN /\ returned[r] = <<Rejects(ErrLocalNoContent)>>
                    /\ frame[r].entry = "handler" =>
                           responses[r] = <<errorResponse(ErrLocalNoContent)>>
               ELSE /\ returned[r] = <<Returns("")>>
                    /\ frame[r].entry = "handler" =>
                           /\ Len(responses[r]) = 1
                           /\ responses[r][1].success
                           /\ responses[r][1].test[1].code = ""
        /\ (returned[r] # <<>> /\ frame[r].provider # "local") =>
               returned[r][1] # Rejects(ErrLocalNoContent)

\* a dispatch to a provider other than local got a 2xx response with an empty
\* content string and was answered with a test whose code is empty
C20_Witness ==
    \E r \in Requests :
        /\ Ended(r) /\ frame[r].provider \in HostedChat \cup {"openrouter", "manual"}
        /\ Final2xx(r) /\ last(http[r]).body = "empty"
        /\ returned[r] = <<Returns("")>>
        /\ Len(responses[r]) = 1 /\ responses[r][1].success

\* the step in which handleGenerateTest goes on from `await getStoredSettings()`
\* with every check passed
PassesChecks(r) ==
    frame[r].pc = "settings" /\ frame'[r].pc # "settings" /\ handlerCheck(settings).ok

\* C21 (as stated): once the checks have passed, a non-blank userPrompt leads
\* to a dispatch to the AI provider, a blank userPrompt with elements leads to
\* template generation with no HTTP attempt and an empty apiCalls list in the
\* returned test, and a blank userPrompt without elements leads to a dispatch.
C21_PromptDecidesPath ==
    [][\A r \in Requests :
          PassesChecks(r) =>
              LET data == frame[r].data
                  dispatched == http'[r] # <<>> \/ returned'[r] # <<>>
              IN  IF trim(data.userPrompt) # <<>> THEN dispatched
                  ELSE IF data.elements > 0
                  THEN /\ ~dispatched
                       /\ Len(responses'[r]) = 1
                       /\ responses'[r][1].success
                       /\ responses'[r][1].test[1].apiCalls = <<>>
                  ELSE dispatched]_vars

\* C22: after any sequence of saveChatMessage requests handled one after
\* another, the stored chatHistory has at most 100 entries and is the most
\* recent min(n, 100) saved messages in arrival order.
C22_HistoryIsLastHundred ==
    call.fn = "saveChatMessage" =>
        LET n == Len(call.saved)
            kept == IF n < HistoryLimit THEN n ELSE HistoryLimit
        IN  /\ Len(call.stored) <= HistoryLimit
            /\ call.stored = SubSeq(call.saved, n - kept + 1, n)
            /\ \A i \in 1..(Len(call.stored) - 1) : call.stored[i] < call.stored[i + 1]

\* more than 100 messages have been saved, one request in between failed, and
\* the oldest messages are gone
C22_Witness ==
    /\ call.fn = "saveChatMessage"
    /\ call.pc = "idle"
    /\ Len(call.saved) > HistoryLimit
    /\ call.failures > 0
    /\ Len(call.stored) = HistoryLimit
    /\ call.stored[1] > 1
    /\ call.stored[HistoryLimit] = call.saved[Len(call.saved)]

\* C23 (as stated): while the inspector is active with at least one element
\* selected, pressing Enter stops inspection and a generateTest request for
\* the selected elements is eventually sent to the background script.
C23_EnterSendsGenerateTest ==
    (call.fn = "page" /\ call.entered # <<>>) ~>
        (\E i \in 1..Len(call.sent) : call.sent[i] = call.entered)

\* C24 (as stated): a generation the content script has accepted eventually
\* leaves the generating state: by a testGenerated or testGenerationError
\* message, or else by the 30 second timeout.
C24_GeneratingEventuallyEnds ==
    (call.fn = "page" /\ call.panel.isGenerating /\ call.timers # <<>>) ~>
        ~call.panel.isGenerating

\* C25: every message the background listener receives is answered by
\* exactly one sendResponse call: none while its handler is still running,
\* one once it has ended, on the success path and on every error path.
C25_ExactlyOneResponse ==
    call.fn = "listener" =>
        /\ call.action # "" =>
               Len(call.answers) = (IF call.at = 0 THEN 1 ELSE 0)
        /\ \A r \in Requests :
               Len(responses[r]) = (IF frame[r].pc = "done" THEN 1 ELSE 0)

\* a saveTest message whose storage call rejected and a generateTest message
\* that failed its checks have each been answered once, with an error
C25_Witness ==
    /\ call.fn = "listener"
    /\ call.action = "saveTest" /\ call.at = 0
    /\ call.answers = <<errorResponse("storage error")>>
    /\ \E r \in Requests :
           /\ frame[r].pc = "done"
           /\ http[r] = <<>>
           /\ Len(responses[r]) = 1 /\ ~responses[r][1].success

\* the settings of a fresh installation with an API key for the default provider
DefaultsWithKey == [DEFAULT_SETTINGS EXCEPT !.apiKeys["openai"] = "sk-key"]

\* C26 (as stated): the default selectedFramework resolves to a template, so
\* a generateTest request made with the default settings plus a valid API key
\* is not rejected as "Unsupported test framework".
C26_DefaultSettingsUsable ==
    settings = DefaultsWithKey =>
        \A r \in Requests :
            responses[r] # <<>> =>
                /\ getTemplateByFramework(settings.selectedFramework)
                /\ \A i \in 1..Len(responses[r]) : responses[r][i].error # ErrFramework

\* C27 (as stated): with an API key and a model in openRouterConfig, a
\* dispatch to openrouter issues its HTTP request with the configured model
\* and does not fail with "OpenRouter model not specified".
C27_OpenRouterUsesConfiguredModel ==
    \A r \in Requests :
        (/\ Started(r) /\ frame[r].provider = "openrouter"
         /\ settings.openRouterConfig.present
         /\ settings.openRouterConfig.apiKey # ""
         /\ settings.openRouterConfig.model # "") =>
            /\ returned[r] # <<Rejects(ErrOpenRouterModel)>>
            /\ http[r] # <<>>
            /\ frame[r].model = settings.openRouterConfig.model

\* C28 (as stated): for any interleaving of concurrent saveTest requests,
\* every test whose request was answered with success is in the stored
\* savedTests list afterwards.
C28_NoSavedTestLost ==
    call.fn = "saveTest" =>
        \A s \in Savers :
            (call.answers[s] # <<>> /\ call.answers[s][1].success) =>
                \E i \in 1..Len(call.stored) : call.stored[i] = s

\* C29 (as stated): after stopAllTests() has been called while
\* runMultipleTests is executing, the test in flight ends as failed with the
\* abort error, no further test of that suite is started, and
\* getRunningTests() stays empty until a new run is requested.
C29_StopStopsWholeRun ==
    [][(call.fn = "runner" /\ call.stopped /\ call'.stopped) =>
           /\ call'.runningTests = {}
           /\ Len(call'.tests) > Len(call.tests) =>
                  /\ call.aborted
                  /\ call'.tests[Len(call'.tests)].error = ErrAborted
                  /\ call'.test = 0]_vars

====
